---- MODULE Spec2Model ----
(***************************************************************************)
(* AppManager (src/AppManager/app_manager_server.py): the per-node agent   *)
(* that starts, stops and registers AppServer instances.                   *)
(*                                                                         *)
(* Names (project ids, version keys, Monit watch names, ZooKeeper entry    *)
(* names) are sequences of one-character strings, so that startswith,      *)
(* split, rsplit, str(), int() and the regular expression of               *)
(* stop_app_instance are computed on the text as the code computes them.   *)
(*                                                                         *)
(* Every coroutine is a record in the bag tasks; one action is one run of  *)
(* the coroutine between two suspension points of the IOLoop.              *)
(***************************************************************************)
EXTENDS Integers, Sequences, FiniteSets, Bags, TLC

VARIABLES
  monit,              \* Monit entries: watch name -> state
  api_servers,        \* api_servers: project id -> port
  running_instances,  \* running_instances: set of Instance
  registry,           \* ZooKeeper: <<version key, entry name>> -> payload
  projects_manager,   \* projects_manager: version key -> version_details
  sources,            \* revision keys whose source is on disk
  logrotate,          \* projects that have a logrotate script
  tasks,              \* bag of coroutines suspended on the IOLoop
  nreq,               \* number of HTTP requests so far
  nticks,             \* number of runs of the failure detector so far
  started,            \* history: started (version key, port), not yet stopped
  ready,              \* history: instances whose probe has answered
  timed_out,          \* history: instances whose last probe timed out
  recovered,          \* history: instances recover_state has registered
  last_tick,          \* history: the frame of the last failure detector run
                      \* that ended, at its end
  detector_stopped,   \* history: (version key, port) of the stops that the
                      \* failure detector has called and that have returned
  reply,              \* history: how the last HTTP handler that ended did so
  boot                \* history: what the last recover_state removed,
                      \* whether it reloaded Monit and what it killed

program == <<monit, api_servers, running_instances, registry,
             projects_manager, sources, logrotate, tasks>>
history == <<started, ready, timed_out, recovered, last_tick,
             detector_stopped, reply, boot>>
vars == <<program, nreq, nticks, history>>
program_but_tasks == <<monit, api_servers, running_instances, registry,
                       projects_manager, sources, logrotate>>

----------------------------------------------------------------------------
(* Bounds                                                                  *)

\* HTTP requests accepted in one behaviour.
MaxRequests == 2
\* Runs of the failure detector in one behaviour.
MaxTicks == 2
\* Coroutines suspended at the same time.
MaxInFlight == 2

----------------------------------------------------------------------------
(* Text                                                                    *)

\* The operations on names are functions: a name is computed once and then
\* taken apart.

\* The names of the program and their parts: Python strings.
Text == Seq(STRING)

Digits == <<"0", "1", "2", "3", "4", "5", "6", "7", "8", "9">>

\* str(n) of a natural number.
Str[n \in Nat] ==
  IF n < 10 THEN <<Digits[n + 1]>>
  ELSE Str[n \div 10] \o <<Digits[(n % 10) + 1]>>

DigitValue(c) == CHOOSE d \in 0..9 : Digits[d + 1] = c

\* int(s) of a string of decimal digits.
ParseInt[s \in Text] ==
  IF Len(s) = 0 THEN 0
  ELSE 10 * ParseInt[SubSeq(s, 1, Len(s) - 1)] + DigitValue(s[Len(s)])

\* s.startswith(p)
StartsWith[s \in Text, p \in Text] ==
  /\ Len(p) <= Len(s)
  /\ SubSeq(s, 1, Len(p)) = p

\* The positions of the character c in s.
Positions[s \in Text, c \in STRING] == {i \in 1..Len(s) : s[i] = c}

Max[S \in SUBSET Int] == CHOOSE x \in S : \A y \in S : y <= x
Min[S \in SUBSET Int] == CHOOSE x \in S : \A y \in S : x <= y

\* s.rsplit(c, 1): the text before and after the last c (the watch names
\* that reach it always hold one).
RSplit1[s \in Text, c \in STRING] ==
  IF Positions[s, c] = {} THEN <<s>>
  ELSE LET i == Max[Positions[s, c]]
       IN <<SubSeq(s, 1, i - 1), SubSeq(s, i + 1, Len(s))>>

\* s.split(c)
Split[s \in Text, c \in STRING] ==
  IF Positions[s, c] = {} THEN <<s>>
  ELSE LET i == Min[Positions[s, c]]
       IN <<SubSeq(s, 1, i - 1)>> \o Split[SubSeq(s, i + 1, Len(s)), c]

\* c.join(parts)
Join[parts \in Seq(Text), c \in STRING] ==
  IF Len(parts) = 0 THEN <<>>
  ELSE IF Len(parts) = 1 THEN parts[1]
  ELSE parts[1] \o <<c>> \o Join[Tail(parts), c]

\* parts[:n]
Take[parts \in Seq(Text), n \in Nat] ==
  SubSeq(parts, 1, IF Len(parts) < n THEN Len(parts) ELSE n)

----------------------------------------------------------------------------
(* Constants of the program                                                *)

VERSION_PATH_SEPARATOR == "_"
MONIT_INSTANCE_PREFIX == <<"i", "n", "s", "t", "a", "n", "c", "e", "_">>
API_SERVER_PREFIX ==
  <<"a", "p", "i", "-", "s", "e", "r", "v", "e", "r", "_">>
MAX_API_SERVER_PORT == 19999
\* HTTPCodes
OK == 200
BAD_REQUEST == 400
INTERNAL_ERROR == 500
SERVICE_UNAVAILABLE == 503
UNMONITORED == "unmonitored"
RUNNING == "running"
\* options.private_ip
private_ip == <<"1", "0", ".", "0", ".", "0", ".", "2">>

\* The inputs of the model: two projects, the id of one a prefix of the id of
\* the other, one version each, and two ports, the digits of one a prefix of
\* the digits of the other.
ProjectA == <<"a">>
ProjectAB == <<"a", "b">>
VersionA == <<"a", "_", "s", "_", "v">>
VersionAB == <<"a", "b", "_", "s", "_", "v">>
VersionKeys == {VersionA, VersionAB}
Ports == {1024, 10240}
Keys == VersionKeys \X Ports
\* config['login_server']
LoginServer == <<"1", "0", ".", "0", ".", "0", ".", "1">>

\* The body of a start request for a port.
Config(app_port) == [app_port |-> app_port, login_server |-> LoginServer]

\* version_details of the versions the scheduler has deployed.
DeployedVersions ==
  (VersionA :> [runtime |-> "python27", revision |-> 1, max_memory |-> 400])
  @@ (VersionAB :> [runtime |-> "java", revision |-> 1, max_memory |-> 400])

\* The highest revision a deployment reaches.
MaxRevision == 2

----------------------------------------------------------------------------
(* Instance                                                                *)

Instance(revision_key, port) == [revision_key |-> revision_key, port |-> port]

\* The objects of class Instance.
InstanceRecords == [revision_key : Text, port : Nat]

\* Instance.version_key
version_key[instance \in InstanceRecords] ==
  Join[Take[Split[instance.revision_key, VERSION_PATH_SEPARATOR], 3],
       VERSION_PATH_SEPARATOR]

\* Instance.revision
revision[instance \in InstanceRecords] ==
  LET parts == Split[instance.revision_key, VERSION_PATH_SEPARATOR]
  IN parts[Len(parts)]

\* The (version key, port) pair that names an instance in a stop request
\* and in the load balancer's statistics.
KeyOf[instance \in InstanceRecords] ==
  <<version_key[instance], instance.port>>

\* The name of the Monit watch of an instance.
InstanceWatch[revision_key \in Text, port \in Nat] ==
  MONIT_INSTANCE_PREFIX \o revision_key \o <<"-">> \o Str[port]

\* (revision key, port) parsed back from a watch name.
ParseWatch[entry \in Text] ==
  LET pair == RSplit1[SubSeq(entry, Len(MONIT_INSTANCE_PREFIX) + 1,
                             Len(entry)), "-"]
  IN Instance(pair[1], ParseInt[pair[2]])

\* The name of the Monit watch of an API server.
ApiServerWatch[project_id \in Text, port \in Nat] ==
  API_SERVER_PREFIX \o project_id \o <<"-">> \o Str[port]

\* The instance watches among Monit entries.
InstanceEntries(entries) ==
  {entry \in entries : StartsWith[entry, MONIT_INSTANCE_PREFIX]}

\* misc.is_app_name_valid
IsAppNameValid[project_id \in Text] ==
  /\ Len(project_id) > 0
  /\ \A i \in 1..Len(project_id) :
       project_id[i] \in {"a", "b", "c", "d", "e", "f", "g", "h", "i", "j",
                          "k", "l", "m", "n", "o", "p", "q", "r", "s", "t",
                          "u", "v", "w", "x", "y", "z", "0", "1", "2", "3",
                          "4", "5", "6", "7", "8", "9", "-"}

----------------------------------------------------------------------------
(* Registry (ZooKeeper)                                                    *)

\* The entry name of an instance under its version node.
InstanceEntry[instance \in InstanceRecords] ==
  private_ip \o <<":">> \o Str[instance.port]

\* The path of an instance node below VERSION_REGISTRATION_NODE.
InstanceNode[instance \in InstanceRecords] ==
  <<version_key[instance], InstanceEntry[instance]>>

\* f without the key k.
Without(f, k) == [x \in DOMAIN f \ {k} |-> f[x]]

\* zk_client.ensure_path of a version node.
EnsurePath(reg, version) ==
  IF <<version>> \in DOMAIN reg THEN reg ELSE (<<version>> :> <<>>) @@ reg

\* unregister_instance: the registry and running_instances afterwards;
\* NoNodeError and KeyError are caught.
UnregisterInstance(reg, run, instance) ==
  [registry |-> IF InstanceNode[instance] \in DOMAIN reg
                THEN Without(reg, InstanceNode[instance]) ELSE reg,
   running |-> IF instance \in run THEN run \ {instance} ELSE run]

\* register_instance without its handler of NodeExistsError: a node that
\* exists keeps its value.
RegisterInstanceCreate(reg, run, instance) ==
  IF <<version_key[instance]>> \notin DOMAIN reg
  THEN [registry |-> reg, running |-> run, raised |-> "NoNodeError"]
  ELSE [registry |-> reg @@ (InstanceNode[instance] :> revision[instance]),
        running |-> run \cup {instance},
        raised |-> ""]

\* register_instance: the registry and running_instances afterwards, and
\* the exception it raised ("" for none).  zk_client.create makes the node,
\* and zk_client.set gives it its value when create raises NodeExistsError;
\* create is called without makepath, so it raises NoNodeError, which is
\* not caught, when the version node is missing: no node is made and
\* running_instances.add is not reached.
RegisterInstance(reg, run, instance) ==
  IF <<version_key[instance]>> \notin DOMAIN reg
  THEN [registry |-> reg, running |-> run, raised |-> "NoNodeError"]
  ELSE [registry |-> IF InstanceNode[instance] \in DOMAIN reg
                     THEN [reg EXCEPT ![InstanceNode[instance]] =
                                        revision[instance]]
                     ELSE (InstanceNode[instance] :> revision[instance])
                          @@ reg,
        running |-> run \cup {instance},
        raised |-> ""]

\* The orders in which the elements of S can be enumerated.
Orders(S) ==
  {order \in [1..Cardinality(S) -> S] :
     \A i, j \in 1..Cardinality(S) : order[i] = order[j] => i = j}

\* The instances that declare_instance_nodes reads back from the registry.
RegisteredInstances(reg) ==
  {Instance(node[1] \o <<VERSION_PATH_SEPARATOR>> \o reg[node],
            ParseInt[Split[node[2], ":"][Len(Split[node[2], ":"])]]) :
     node \in {n \in DOMAIN reg :
                 Len(n) = 2 /\ Split[n[2], ":"][1] = private_ip}}

RECURSIVE UnregisterAll(_, _)
UnregisterAll(reg, order) ==
  IF Len(order) = 0 THEN reg
  ELSE UnregisterAll(UnregisterInstance(reg, {}, Head(order)).registry,
                     Tail(order))

RECURSIVE RegisterAll(_, _)
RegisterAll(reg, order) ==
  IF Len(order) = 0 THEN reg
  ELSE LET r == RegisterInstance(reg, {}, Head(order))
       IN IF r.raised # "" THEN r.registry
          ELSE RegisterAll(r.registry, Tail(order))

\* declare_instance_nodes: the registry afterwards, the missing instances
\* being registered in the given order.
DeclareInstanceNodes(reg, live, order) ==
  LET registered == RegisteredInstances(reg)
      removed == CHOOSE o \in Orders(registered \ live) : TRUE
  IN RegisterAll(UnregisterAll(reg, removed), order)

----------------------------------------------------------------------------
(* Supervisor (Monit)                                                      *)

\* retries of unmonitor
UNMONITOR_RETRIES == 5

\* The answers of Monit to the next requests when the k-th of them and the
\* ones after it get 503 (k = 0: none does); a missing answer is a 200.
Answers(k) ==
  IF k = 0 THEN <<>>
  ELSE [i \in 1..(k + UNMONITOR_RETRIES) |-> IF i < k THEN 200 ELSE 503]

\* unmonitor without its retries: the first 503 leaves it.
UnmonitorOnce(entries, process_name, answers, retries) ==
  LET answer == IF Len(answers) = 0 THEN 200 ELSE Head(answers)
      rest == IF Len(answers) = 0 THEN answers ELSE Tail(answers)
      code == IF answer = 200 /\ process_name \notin entries
              THEN 404 ELSE answer
  IN IF code = 200 THEN [result |-> "ok", rest |-> rest]
     ELSE IF code = 404 THEN [result |-> "ProcessNotFound", rest |-> rest]
     ELSE [result |-> "HTTPError", rest |-> rest]

RECURSIVE unmonitor(_, _, _, _)
\* unmonitor: its outcome and the answers left for later requests.  A
\* request for a process Monit does not list gets 404.
unmonitor(entries, process_name, answers, retries) ==
  LET answer == IF Len(answers) = 0 THEN 200 ELSE Head(answers)
      rest == IF Len(answers) = 0 THEN answers ELSE Tail(answers)
      code == IF answer = 200 /\ process_name \notin entries
              THEN 404 ELSE answer
  IN IF code = 200 THEN [result |-> "ok", rest |-> rest]
     ELSE IF code = 404 THEN [result |-> "ProcessNotFound", rest |-> rest]
     ELSE IF code = 503
       THEN IF retries - 1 < 0 THEN [result |-> "HTTPError", rest |-> rest]
            ELSE unmonitor(entries, process_name, rest, retries - 1)
     ELSE [result |-> "HTTPError", rest |-> rest]

\* A teardown that removes the configuration before it unmonitors, and
\* whatever unmonitor answers.
RemoveAndUnmonitor(m, watch, answers) ==
  LET r == unmonitor(DOMAIN m, watch, answers, UNMONITOR_RETRIES)
  IN [monit |-> Without(m, watch),
      raised |-> r.result = "HTTPError",
      rest |-> r.rest,
      steps |-> <<"remove_configuration", "unmonitor", "stop_instance">>]

\* unmonitor_and_terminate: the Monit entries afterwards, whether it raised,
\* the answers left and the calls it has made, in their order: it returns
\* after unmonitor when that raises ProcessNotFound, and the HTTPError of
\* unmonitor leaves it.
UnmonitorAndTerminate(m, watch, answers) ==
  LET r == unmonitor(DOMAIN m, watch, answers, UNMONITOR_RETRIES)
  IN [monit |-> IF r.result = "ok" THEN Without(m, watch) ELSE m,
      raised |-> r.result = "HTTPError",
      rest |-> r.rest,
      steps |-> IF r.result = "ok"
                THEN <<"unmonitor", "remove_configuration", "stop_instance">>
                ELSE <<"unmonitor">>]

----------------------------------------------------------------------------
(* API servers                                                             *)

\* The loop of ensure_api_server without its test: the port below the
\* last port enumerated.
NextApiPortLast(server_port, ports) ==
  IF Len(ports) = 0 THEN server_port ELSE ports[Len(ports)] - 1

RECURSIVE NextApiPort(_, _)
\* The loop of ensure_api_server over api_servers.values().
NextApiPort(server_port, ports) ==
  IF Len(ports) = 0 THEN server_port
  ELSE NextApiPort(IF Head(ports) <= server_port
                   THEN Head(ports) - 1 ELSE server_port, Tail(ports))

\* A start that does not ensure the API server before the source.
EnsureApiServerSkipped(api, m, project_id, order) ==
  [api |-> api, monit |-> m, port |-> 0]

\* ensure_api_server: api_servers and the Monit entries afterwards; order
\* is the order in which the dictionary enumerates its projects.
EnsureApiServer(api, m, project_id, order) ==
  IF project_id \in DOMAIN api
  THEN [api |-> api, monit |-> m, port |-> api[project_id]]
  ELSE LET server_port ==
             NextApiPort(MAX_API_SERVER_PORT,
                         [i \in 1..Len(order) |-> api[order[i]]])
       IN [api |-> (project_id :> server_port) @@ api,
           monit |-> (ApiServerWatch[project_id, server_port] :> RUNNING)
                     @@ m,
           port |-> server_port]

\* stop_api_server
StopApiServer(api, m, project_id, answers) ==
  IF project_id \notin DOMAIN api
  THEN [api |-> api, monit |-> m, raised |-> FALSE]
  ELSE LET r == UnmonitorAndTerminate(
                  m, ApiServerWatch[project_id, api[project_id]], answers)
       IN [api |-> IF r.raised THEN api ELSE Without(api, project_id),
           monit |-> r.monit,
           raised |-> r.raised]

\* The API server watches among Monit entries.
ApiServerEntries(entries) ==
  {entry \in entries : StartsWith[entry, API_SERVER_PREFIX]}

RECURSIVE PopulateApiServers(_, _)
\* populate_api_servers from the answer of monit_operator.get_entries:
\* api_servers afterwards, api being api_servers before and monit_entries
\* the entries in the order Monit listed them.  Each API server watch
\* overwrites the port of its project, so of two watches of one project
\* the one listed last stays.
PopulateApiServers(api, monit_entries) ==
  IF Len(monit_entries) = 0 THEN api
  ELSE LET entry == Head(monit_entries)
           pair == RSplit1[entry, "-"]
           project_id == SubSeq(pair[1], Len(API_SERVER_PREFIX) + 1,
                                Len(pair[1]))
       IN PopulateApiServers(
            IF StartsWith[entry, API_SERVER_PREFIX]
            THEN (project_id :> ParseInt[pair[2]]) @@ api
            ELSE api,
            Tail(monit_entries))

----------------------------------------------------------------------------
(* Coroutines                                                              *)

NoDetails == [runtime |-> "", revision |-> 0, max_memory |-> 0]

\* The frame of a coroutine: its name, the suspension point it waits at and
\* its local variables.  In the frame of stop_failed_instances, todo and
\* met are the state of the iterator of its loop: the members of
\* running_instances that are DOWN and lie, since the loop began, in a slot
\* of the hash table ahead of the iterator, and the ones it has yielded and
\* that have not left their slot.  The fields due and invoked are
\* history: what the failure detector's run was told when its loop began
\* and the instances it has called stop_app_instance for, and
\* covers, the (version key, port) of the stop it has called once that stop
\* has torn down, as long as no start_app has started it again; so are
\* attempts, slept and outcome: the requests that wait_on_app has sent,
\* the seconds it has slept and the outcome of its last request.  code is
\* the HTTP code of the HTTPError that has left the coroutine which the
\* frame waits for.  behind counts the callbacks that were on the IOLoop's
\* queue when the coroutine suspended and have not run yet.
NewTask == [kind |-> "", pc |-> "", version_key |-> <<>>, port |-> 0,
            revision_key |-> <<>>, details |-> NoDetails, entries |-> {},
            failed |-> {}, todo |-> {}, invoked |-> {}, si_used |-> 0,
            met |-> {}, covers |-> {}, due |-> {},
            retries |-> 0, attempts |-> 0, slept |-> 0, outcome |-> 0,
            code |-> 0, behind |-> 0]

\* The end of a handler: the exception that leaves it and its HTTP code, or
\* no exception and the code of the reply.
Reply(handler, raised, code) ==
  [handler |-> handler, raised |-> raised, code |-> code]
NoReply == Reply("", "", 0)

\* The handler of the request that a coroutine serves.
HandlerOf(kind) ==
  IF kind \in {"start_app", "VersionHandler.post"}
    THEN "VersionHandler.post"
  ELSE IF kind \in {"stop_app", "VersionHandler.delete"}
    THEN "VersionHandler.delete"
  ELSE IF kind \in {"stop_app_instance", "InstanceHandler.delete"}
    THEN "InstanceHandler.delete"
  ELSE ""

\* An exception leaves a coroutine: the handlers turn a
\* BadConfigurationException into an HTTPError with BAD_REQUEST and let
\* every other exception through; the failure detector serves no request.
Raised(t, exception, code) ==
  IF HandlerOf(t.kind) = "" THEN reply
  ELSE IF exception = "BadConfigurationException"
    THEN Reply(HandlerOf(t.kind), "HTTPError", BAD_REQUEST)
  ELSE Reply(HandlerOf(t.kind), exception, code)

\* A coroutine returns to its handler, which returns.
Returned(t) ==
  IF HandlerOf(t.kind) = "" THEN reply ELSE Reply(HandlerOf(t.kind), "", OK)

\* The callbacks that are on the IOLoop's queue with nothing to wait for:
\* an add_routing that spawn_callback has put there and that has sent no
\* request yet, and the resumption of the caller of a coroutine that has
\* ended: of a handler whose start_app raised (pc "raised") or whose stop
\* returned or raised ("returned", "raised"), of the stop whose
\* clean_old_sources returned ("cleaned") and of the stop_failed_instances
\* whose stop_app_instance returned or raised ("next", "raised").
IsCallback(t) ==
  \/ t.kind = "add_routing" /\ t.attempts = 0
  \/ t.pc \in {"raised", "returned", "cleaned", "next"}

Queued(bag) ==
  BagCardinality([t \in {u \in BagToSet(bag) : IsCallback(u)} |-> bag[t]])

\* A coroutine suspends: whatever wakes it, an answer, a timer or the
\* queue itself, puts its resumption at the end of the queue, behind the
\* callbacks that are there.
Suspend(bag, t) == [t EXCEPT !.behind = Queued(bag)]

\* The queue once its first callback has run.
Advance(bag) ==
  BagOfAll(LAMBDA t : [t EXCEPT !.behind = IF @ > 0 THEN @ - 1 ELSE 0], bag)

\* The frames without their places on the queue.
Unqueued(bag) == BagOfAll(LAMBDA t : [t EXCEPT !.behind = 0], bag)

Spawn(bag, t) == bag (+) SetToBag({Suspend(bag, t)})
Finish(bag, t) == bag (-) SetToBag({t})
Replace(bag, t, u) == Spawn(Finish(bag, t), u)

\* The frames once the members gone have left their slots in the hash
\* table of running_instances: set.remove empties the slot of a member, and
\* a set.add that rebuilds the table moves every member; where a member
\* that comes back lies, ahead of an iterator or behind it, depends on the
\* table.
Unslot(bag, gone) ==
  BagOfAll(LAMBDA t : IF t.kind = "stop_failed_instances"
                      THEN [t EXCEPT !.todo = @ \ gone, !.met = @ \ gone]
                      ELSE t,
           bag)

\* The frames once start_app has started the watch of key: the stops that
\* the failure detector has under way no longer stand for it.
Restarted(bag, key) ==
  BagOfAll(LAMBDA t : IF t.kind = "stop_failed_instances"
                      THEN [t EXCEPT !.covers = @ \ {key}]
                      ELSE t,
           bag)

\* VersionHandler.post suspended at "yield start_app(version_key, config)",
\* its callback being on the IOLoop's queue: behind the add_routing that
\* start_app spawned (pc "callback"), at the head of the queue once that
\* add_routing has run (pc "resume"), or on the queue with the exception
\* that left start_app (pc "raised").
VersionHandlerPost(t, pc) ==
  [NewTask EXCEPT !.kind = "VersionHandler.post",
                  !.pc = pc,
                  !.revision_key = t.revision_key,
                  !.port = t.port]

\* The IOLoop runs the callback t, the first of its queue: the others are
\* one place nearer, and the callback of the handler that started an
\* add_routing, queued right behind it, is at the head of the queue.
RunCallback(bag, t) ==
  IF ~IsCallback(t) THEN bag
  ELSE LET rest == Advance(bag)
           handler == VersionHandlerPost(t, "callback")
       IN IF t.kind = "add_routing" /\ BagIn(handler, rest)
          THEN (rest (-) SetToBag({handler}))
                 (+) SetToBag({VersionHandlerPost(t, "resume")})
          ELSE rest

\* InstanceHandler.delete suspended at "yield stop_app_instance(...)" or
\* VersionHandler.delete at "yield stop_app(version_key)", its callback
\* being on the IOLoop's queue: the coroutine t that it called has returned
\* (pc "returned") or an HTTPError with this code has left it ("raised").
HandlerDelete(t, pc, code) ==
  [NewTask EXCEPT !.kind = HandlerOf(t.kind),
                  !.pc = pc,
                  !.version_key = t.version_key,
                  !.port = t.port,
                  !.code = code]

\* The coroutines in flight: the frames but the handlers that wait for
\* their turn on the queue.
InFlight(bag) ==
  BagCardinality(
    [t \in {u \in BagToSet(bag) : HandlerOf(u.kind) # u.kind} |-> bag[t]])

\* The callbacks at the head of the IOLoop's queue: the IOLoop runs them
\* before it polls for requests and before any other callback.
HeadOfQueue(bag) == {t \in BagToSet(bag) : t.pc = "resume"}

\* re.compile('{}{}.*-{}'.format(MONIT_INSTANCE_PREFIX, version_key,
\* port)).match(entry): the version keys and ports hold no character that
\* is special in a regular expression, and match does not anchor the end.
instance_key_re[entry \in Text, version \in Text, port \in Nat] ==
  LET head == MONIT_INSTANCE_PREFIX \o version
      tail == <<"-">> \o Str[port]
  IN /\ StartsWith[entry, head]
     /\ \E i \in (Len(head) + 1)..(Len(entry) - Len(tail) + 1) :
          SubSeq(entry, i, i + Len(tail) - 1) = tail

\* The revision keys clean_old_sources keeps.
ActiveRevisions(entries, projects) ==
  {ParseWatch[entry].revision_key : entry \in InstanceEntries(entries)}
  \cup {version \o <<VERSION_PATH_SEPARATOR>>
                  \o Str[projects[version].revision] :
          version \in DOMAIN projects}

----------------------------------------------------------------------------
(* start_app and add_routing                                               *)

\* start_app up to its wait for the source: POST /versions/{version} with
\* {app_port, login_server}.
start_app(version, config) ==
  /\ nreq < MaxRequests
  /\ InFlight(tasks) < MaxInFlight
  /\ HeadOfQueue(tasks) = {}
  /\ nreq' = nreq + 1
  /\ LET parts == Split[version, VERSION_PATH_SEPARATOR]
         project_id == parts[1]
         t == [NewTask EXCEPT !.kind = "start_app", !.version_key = version]
         rejected ==
           IF "app_port" \notin DOMAIN config
             THEN "BadConfigurationException"
           ELSE IF \/ "login_server" \notin DOMAIN config
                   \/ config.login_server = <<>>
             THEN "BadConfigurationException"
           ELSE IF Len(parts) # 3 THEN "ValueError"
           ELSE IF ~IsAppNameValid[project_id]
             THEN "BadConfigurationException"
           ELSE IF version \notin DOMAIN projects_manager
             THEN "BadConfigurationException"
           ELSE ""
     IN IF rejected # ""
        THEN /\ reply' = Raised(t, rejected, 0)
             /\ UNCHANGED <<api_servers, monit, tasks>>
        ELSE \E order \in Orders(DOMAIN api_servers) :
               LET details == projects_manager[version]
                   revision_key ==
                     Join[<<parts[1], parts[2], parts[3],
                            Str[details.revision]>>, VERSION_PATH_SEPARATOR]
                   ensured == EnsureApiServer(api_servers, monit,
                                              project_id, order)
               IN /\ api_servers' = ensured.api
                  /\ monit' = ensured.monit
                  /\ tasks' = Spawn(tasks,
                       [t EXCEPT !.pc = "ensure_source",
                                 !.port = config.app_port,
                                 !.revision_key = revision_key,
                                 !.details = details])
                  /\ UNCHANGED reply
  /\ UNCHANGED <<running_instances, registry, projects_manager, logrotate,
                 boot, sources, nticks, started, ready, timed_out, recovered,
                 last_tick, detector_stopped>>

START_APP_TIMEOUT == 180
BACKOFF_TIME == 1
HTTP_OK == 200
\* The outcome of an attempt that raised IOError; the others are the codes
\* of the responses.
IO_ERROR == 0

\* math.ceil(START_APP_TIMEOUT / BACKOFF_TIME): the attempts that
\* wait_on_app is ready to make.
ProbeRetries ==
  (START_APP_TIMEOUT + BACKOFF_TIME - 1) \div BACKOFF_TIME

\* The frame of add_routing that spawn_callback leaves on the IOLoop when
\* start_app returns: it has made no attempt yet (on the queue) or waits in
\* the sleep of wait_on_app.
SpawnAddRouting(t) ==
  [NewTask EXCEPT !.kind = "add_routing",
                  !.pc = "wait_on_app",
                  !.revision_key = t.revision_key,
                  !.port = t.port,
                  !.retries = ProbeRetries]

\* The Future of source_manager.ensure_source resolves: the source of the
\* revision is on disk, and the resumption of start_app joins the IOLoop's
\* queue behind the callbacks that are there.
ensure_source(t) ==
  /\ t.kind = "start_app" /\ t.pc = "ensure_source"
  /\ sources' = sources \cup {t.revision_key}
  /\ tasks' = Replace(tasks, t, [t EXCEPT !.pc = "sourced"])
  /\ UNCHANGED <<monit, api_servers, running_instances, registry,
                 projects_manager, logrotate, nreq, nticks, history>>

\* start_app from its resumption after ensure_source to its end, whatever
\* has become of the source since: the runtime's start command, the Monit
\* configuration, the start of the watch and the spawn of add_routing.  The
\* future of start_app puts the callback that resumes VersionHandler.post
\* on the IOLoop's queue, behind add_routing.
start_app_resume(t) ==
  /\ t.kind = "start_app" /\ t.pc = "sourced"
  /\ IF \/ t.details.runtime \in {"python27", "go", "php"}
        \/ t.details.runtime = "java" /\ t.details.max_memory - 250 > 0
     THEN /\ monit' = (InstanceWatch[t.revision_key, t.port] :> RUNNING)
                       @@ monit
          /\ registry' = EnsurePath(registry, t.version_key)
          /\ tasks' = Spawn(Replace(Restarted(tasks,
                                                <<t.version_key, t.port>>),
                                      t, SpawnAddRouting(t)),
                             VersionHandlerPost(t, "callback"))
          /\ started' = started \cup {<<t.version_key, t.port>>}
          /\ detector_stopped' =
               detector_stopped \ {<<t.version_key, t.port>>}
          /\ logrotate' = logrotate
               \cup {Split[t.version_key, VERSION_PATH_SEPARATOR][1]}
     ELSE /\ tasks' = Replace(tasks, t, VersionHandlerPost(t, "raised"))
          /\ UNCHANGED <<monit, registry, started, detector_stopped,
                         logrotate>>
  /\ UNCHANGED <<api_servers, running_instances, projects_manager, sources,
                 boot, nreq, nticks, ready, timed_out, recovered, last_tick,
                 reply>>

\* VersionHandler.post from the end of start_app to its own end: the reply
\* of the request.
version_handler_post(t) ==
  /\ t.kind = "VersionHandler.post" /\ t.pc \in {"resume", "raised"}
  /\ reply' = IF t.pc = "raised"
              THEN Raised(t, "BadConfigurationException", 0)
              ELSE Returned(t)
  /\ tasks' = Finish(RunCallback(tasks, t), t)
  /\ UNCHANGED <<program_but_tasks, nreq, nticks, started, ready, timed_out,
                 recovered, last_tick, detector_stopped, boot>>

\* add_routing from the answer of wait_on_app, True when the port answered
\* within START_APP_TIMEOUT, to its end.  wait_on_app returns True without
\* a suspension when its first request, which blocks the IOLoop, gets a
\* response; it returns False after its sleeps only.  The set.add of a new
\* member may rebuild the hash table of running_instances.
add_routing(t, start_successful) ==
  /\ t.kind = "add_routing" /\ t.pc = "wait_on_app"
  /\ start_successful \/ t.attempts > 0
  /\ LET instance == Instance(t.revision_key, t.port)
         r == RegisterInstance(registry, running_instances, instance)
     IN IF start_successful
        THEN /\ registry' = r.registry
             /\ running_instances' = r.running
             /\ ready' = ready \cup {instance}
             /\ timed_out' = timed_out \ {instance}
        ELSE /\ timed_out' = timed_out \cup {instance}
             /\ UNCHANGED <<registry, running_instances, ready>>
  /\ \E gone \in {{}} \cup {running_instances' \ running_instances} :
       tasks' = Unslot(Finish(RunCallback(tasks, t), t),
                       IF gone = {} THEN {} ELSE running_instances')
  /\ UNCHANGED <<monit, api_servers, projects_manager, logrotate, boot,
                 sources, nreq, nticks, started, recovered, last_tick,
                 detector_stopped, reply>>

\* A pass of the loop of wait_on_app if it took for an answer only the
\* responses whose code is HTTP_OK.
WaitOnAppOk(t, outcome) ==
  /\ t.kind = "add_routing" /\ t.pc = "wait_on_app"
  /\ t.retries > 0
  /\ IF outcome = HTTP_OK
     THEN add_routing(t, TRUE)
     ELSE /\ tasks' = Replace(RunCallback(tasks, t), t,
                              [t EXCEPT !.retries = @ - 1,
                                        !.attempts = @ + 1,
                                        !.slept = @ + BACKOFF_TIME,
                                        !.outcome = outcome])
          /\ UNCHANGED <<monit, api_servers, running_instances, registry,
                         projects_manager, logrotate, boot, sources, nreq,
                         nticks, started, ready, timed_out, recovered,
                         last_tick, detector_stopped, reply>>

\* A pass of the loop of wait_on_app, in the frame of add_routing that
\* waits for it.  The request to the port gets a response, of any code, and
\* wait_on_app returns True to add_routing, which goes to its end; or the
\* request raises IOError, and wait_on_app has one retry less and sleeps
\* BACKOFF_TIME.
wait_on_app(t, outcome) ==
  /\ t.kind = "add_routing" /\ t.pc = "wait_on_app"
  /\ t.retries > 0
  /\ IF outcome # IO_ERROR
     THEN add_routing(t, TRUE)
     ELSE /\ tasks' = Replace(RunCallback(tasks, t), t,
                              [t EXCEPT !.retries = @ - 1,
                                        !.attempts = @ + 1,
                                        !.slept = @ + BACKOFF_TIME,
                                        !.outcome = outcome])
          /\ UNCHANGED <<monit, api_servers, running_instances, registry,
                         projects_manager, logrotate, boot, sources, nreq,
                         nticks, started, ready, timed_out, recovered,
                         last_tick, detector_stopped, reply>>

\* The first pass of the loop of wait_on_app when the port does not answer:
\* add_routing, run from the IOLoop's queue, suspends in the sleep.
add_routing_spawned(t) ==
  /\ t.attempts = 0
  /\ wait_on_app(t, IO_ERROR)

\* The loop of wait_on_app ends with no retry left: wait_on_app returns
\* False to add_routing, which goes to its end.
wait_on_app_timeout(t) ==
  /\ t.kind = "add_routing" /\ t.pc = "wait_on_app"
  /\ t.retries = 0
  /\ add_routing(t, FALSE)

----------------------------------------------------------------------------
(* The failure detector: get_failed_instances and stop_failed_instances    *)

GAE_PREFIX == <<"g", "a", "e", "_">>
DOWN == <<"D", "O", "W", "N">>
UP == <<"U", "P">>
\* The address of another machine of the deployment.
other_ip == <<"1", "0", ".", "0", ".", "0", ".", "3">>

\* The servers a load balancer can list in its statistics.
StatsServers ==
  {[name |-> GAE_PREFIX \o VersionA, private_ip |-> private_ip,
    port |-> 1024, status |-> DOWN],
   [name |-> GAE_PREFIX \o VersionA, private_ip |-> private_ip,
    port |-> 10240, status |-> DOWN],
   [name |-> GAE_PREFIX \o VersionAB, private_ip |-> private_ip,
    port |-> 1024, status |-> UP],
   [name |-> GAE_PREFIX \o VersionAB, private_ip |-> other_ip,
    port |-> 1024, status |-> DOWN]}

\* The servers listed in one answer of the load balancer.
MaxServers == 2

\* get_failed_instances: the (version key, port) pairs of the servers of
\* this machine that are DOWN.
get_failed_instances(servers) ==
  {<<SubSeq(server.name, Len(GAE_PREFIX) + 1, Len(server.name)),
     server.port>> :
     server \in {x \in servers : /\ StartsWith[x.name, GAE_PREFIX]
                                  /\ x.private_ip = private_ip
                                  /\ StartsWith[x.status, DOWN]}}

\* The members of running_instances that the loop of stop_failed_instances
\* stops: those whose (version key, port) is among the failed ones.
FailedInstances(run, failed) == {i \in run : KeyOf[i] \in failed}

\* The next step of "for instance in running_instances" in
\* stop_failed_instances, run being running_instances now: the set
\* iterator raises RuntimeError when the size of the set has changed since
\* the loop began; otherwise it yields the next member in the order of the
\* slots of the hash table.  A member that has kept its slot since the loop
\* began is yielded if the iterator has not yielded it, and not again if it
\* has; a member that has taken a slot since (added, or removed and added
\* again, or moved by a rebuild of the table) lies ahead of the iterator or
\* behind it, so it may be yielded, also a second time, or passed over.
\* Each result is the frame at the next suspension point (the get_entries of
\* the stop_app_instance it calls) or at the end of the coroutine.
NextFailedInstance(t, run) ==
  IF Cardinality(run) # t.si_used
  THEN {[t EXCEPT !.pc = "RuntimeError"]}
  ELSE LET must == t.todo \cap run
           added == FailedInstances(run, t.failed) \ (t.todo \cup t.met)
       IN {[t EXCEPT !.pc = "get_entries",
                     !.version_key = version_key[i],
                     !.port = i.port,
                     !.entries = {},
                     !.todo = must \ {i},
                     !.met = @ \cup {i},
                     !.invoked = @ \cup {i}] : i \in must \cup added}
          \cup (IF must = {} THEN {[t EXCEPT !.pc = "returned"]} ELSE {})

\* The coroutine is over when it has returned or raised.
Over(t) == t.pc \in {"returned", "RuntimeError", "HTTPError"}

\* stop_failed_instances from the answer of the load balancer to its first
\* suspension point or to its end.
stop_failed_instances(servers) ==
  /\ InFlight(tasks) < MaxInFlight
  /\ HeadOfQueue(tasks) = {}
  /\ LET failed == get_failed_instances(servers)
         t == [NewTask EXCEPT
                 !.kind = "stop_failed_instances",
                 !.failed = failed,
                 !.si_used = Cardinality(running_instances),
                 !.todo = FailedInstances(running_instances, failed),
                 !.due = FailedInstances(running_instances, failed)]
     IN \E u \in NextFailedInstance(t, running_instances) :
          IF Over(u)
          THEN /\ last_tick' = u
               /\ UNCHANGED tasks
          ELSE /\ tasks' = Spawn(tasks, u)
               /\ UNCHANGED last_tick
  /\ UNCHANGED <<monit, api_servers, running_instances, registry,
                 projects_manager, logrotate, boot, sources, nreq, started,
                 ready, timed_out, recovered, detector_stopped, reply>>

\* monit_operator.get_entries answers the stop_app_instance that the
\* failure detector called.
get_entries(t) ==
  /\ t.kind = "stop_failed_instances" /\ t.pc = "get_entries"
  /\ tasks' = Replace(tasks, t, [t EXCEPT !.pc = "listed",
                                          !.entries = DOMAIN monit])
  /\ UNCHANGED <<monit, api_servers, running_instances, registry,
                 projects_manager, logrotate, sources, nreq, nticks, history>>

----------------------------------------------------------------------------
(* stop_app_instance and stop_app                                          *)

\* stop_app_instance up to the answer of monit_operator.get_entries:
\* DELETE /versions/{version}/{port}.
stop_app_instance(version, port) ==
  /\ nreq < MaxRequests
  /\ InFlight(tasks) < MaxInFlight
  /\ HeadOfQueue(tasks) = {}
  /\ nreq' = nreq + 1
  /\ LET t == [NewTask EXCEPT !.kind = "stop_app_instance",
                               !.version_key = version,
                               !.port = port]
     IN IF ~IsAppNameValid[Split[version, VERSION_PATH_SEPARATOR][1]]
        THEN /\ reply' = Raised(t, "BadConfigurationException", 0)
             /\ UNCHANGED tasks
        ELSE /\ tasks' = Spawn(tasks,
                  [t EXCEPT !.pc = "listed",
                            !.entries = DOMAIN monit,
                            !.covers = {<<version, port>>} \cap started])
             /\ UNCHANGED reply
  /\ UNCHANGED <<monit, api_servers, running_instances, registry,
                 projects_manager, logrotate, boot, sources, nticks, started,
                 ready, timed_out, recovered, last_tick, detector_stopped>>

\* The end of a stop that raises an HTTPError: its future puts the callback
\* that resumes its caller, the handler of the request or
\* stop_failed_instances, on the IOLoop's queue.
RaiseIn(bag, t, code) ==
  tasks' = Replace(bag, t,
                   IF t.kind = "stop_failed_instances"
                   THEN [t EXCEPT !.pc = "raised", !.code = code]
                   ELSE HandlerDelete(t, "raised", code))

\* The same when nothing has left running_instances.
Raise(t, code) == RaiseIn(tasks, t, code)

\* stop_app_instance finds no Monit entry for the version and the port: it
\* raises an HTTPError with INTERNAL_ERROR before it touches anything.
NoEntries(t) == Raise(t, INTERNAL_ERROR)

\* stop_app_instance from the list of Monit entries to its wait for
\* monit_operator.reload; Monit answers 503 from its k-th request on.
stop_app_instance_teardown(t, k) ==
  /\ t.kind \in {"stop_app_instance", "stop_failed_instances"}
  /\ t.pc = "listed"
  /\ LET matching == {entry \in t.entries :
                        instance_key_re[entry, t.version_key, t.port]}
         project_id == Split[t.version_key, VERSION_PATH_SEPARATOR][1]
         project_prefix == MONIT_INSTANCE_PREFIX \o project_id
         remaining_instances ==
           {entry \in t.entries :
              /\ StartsWith[entry, project_prefix]
              /\ ~instance_key_re[entry, t.version_key, t.port]}
     IN IF matching = {}
        THEN /\ NoEntries(t)
             /\ UNCHANGED <<monit, api_servers, running_instances,
                            registry, started>>
        ELSE \E watch \in matching :
               LET unreg == UnregisterInstance(registry, running_instances,
                                               ParseWatch[watch])
                   torn == UnmonitorAndTerminate(monit, watch, Answers(k))
                   api == IF torn.raised \/ remaining_instances # {}
                          THEN [api |-> api_servers, monit |-> torn.monit,
                                raised |-> torn.raised]
                          ELSE StopApiServer(api_servers, torn.monit,
                                             project_id, torn.rest)
                   gone == running_instances \ unreg.running
               IN /\ registry' = unreg.registry
                  /\ running_instances' = unreg.running
                  /\ monit' = api.monit
                  /\ api_servers' = api.api
                  /\ IF api.raised
                     THEN /\ RaiseIn(Unslot(tasks, gone),
                                     [t EXCEPT !.todo = @ \ gone,
                                               !.met = @ \ gone],
                                     SERVICE_UNAVAILABLE)
                          /\ UNCHANGED started
                     ELSE /\ tasks' = Unslot(
                               Replace(tasks, t,
                                 [t EXCEPT
                                    !.pc = "reload",
                                    !.covers =
                                      IF t.kind = "stop_failed_instances"
                                      THEN {<<t.version_key, t.port>>}
                                      ELSE @]),
                               gone)
                          /\ started' = started \ t.covers
  /\ UNCHANGED <<projects_manager, logrotate, boot, sources, nreq, nticks,
                 ready, timed_out, recovered, last_tick, detector_stopped,
                 reply>>

\* stop_app up to the answer of monit_operator.get_entries:
\* DELETE /versions/{version}.
stop_app(version) ==
  /\ nreq < MaxRequests
  /\ InFlight(tasks) < MaxInFlight
  /\ HeadOfQueue(tasks) = {}
  /\ nreq' = nreq + 1
  /\ LET t == [NewTask EXCEPT !.kind = "stop_app",
                               !.version_key = version]
     IN IF ~IsAppNameValid[Split[version, VERSION_PATH_SEPARATOR][1]]
        THEN /\ reply' = Raised(t, "BadConfigurationException", 0)
             /\ UNCHANGED tasks
        ELSE /\ tasks' = Spawn(tasks,
                  [t EXCEPT !.pc = "listed",
                            !.entries = DOMAIN monit,
                            !.covers = {key \in started :
                                          key[1] = version}])
             /\ UNCHANGED reply
  /\ UNCHANGED <<monit, api_servers, running_instances, registry,
                 projects_manager, logrotate, boot, sources, nticks, started,
                 ready, timed_out, recovered, last_tick, detector_stopped>>

\* The projects of projects_manager.
ProjectsOf(projects) ==
  {Split[version, VERSION_PATH_SEPARATOR][1] : version \in DOMAIN projects}

\* stop_app removes the logrotate script of a project that is not in
\* projects_manager.
RemoveLogrotate(scripts, project_id, projects) ==
  IF project_id \notin ProjectsOf(projects)
  THEN scripts \ {project_id} ELSE scripts

RECURSIVE StopEntries(_, _)
\* The loop of stop_app over version_entries, up to the first unmonitor
\* that raises.
StopEntries(st, order) ==
  IF Len(order) = 0 \/ st.raised THEN st
  ELSE LET unreg == UnregisterInstance(st.registry, st.running,
                                       ParseWatch[Head(order)])
           torn == UnmonitorAndTerminate(st.monit, Head(order), st.rest)
       IN StopEntries([monit |-> torn.monit, registry |-> unreg.registry,
                       running |-> unreg.running, rest |-> torn.rest,
                       raised |-> torn.raised], Tail(order))

\* stop_app from the list of Monit entries to its wait for
\* monit_operator.reload; Monit answers 503 from its k-th request on.
stop_app_teardown(t, k) ==
  /\ t.kind = "stop_app" /\ t.pc = "listed"
  /\ LET version_group == MONIT_INSTANCE_PREFIX \o t.version_key
         version_entries == {entry \in t.entries :
                               StartsWith[entry, version_group]}
         project_id == Split[t.version_key, VERSION_PATH_SEPARATOR][1]
         project_prefix == MONIT_INSTANCE_PREFIX \o project_id
         remaining_instances ==
           {entry \in t.entries : /\ StartsWith[entry, project_prefix]
                                  /\ entry \notin version_entries}
     IN \E order \in Orders(version_entries) :
          LET st == StopEntries([monit |-> monit, registry |-> registry,
                                 running |-> running_instances,
                                 rest |-> Answers(k), raised |-> FALSE],
                                order)
              api == IF st.raised \/ remaining_instances # {}
                     THEN [api |-> api_servers, monit |-> st.monit,
                           raised |-> st.raised]
                     ELSE StopApiServer(api_servers, st.monit, project_id,
                                        st.rest)
          IN /\ registry' = st.registry
             /\ running_instances' = st.running
             /\ monit' = api.monit
             /\ api_servers' = api.api
             /\ tasks' = Unslot(
                  Replace(tasks, t,
                          IF api.raised
                          THEN HandlerDelete(t, "raised",
                                             SERVICE_UNAVAILABLE)
                          ELSE [t EXCEPT !.pc = "reload"]),
                  running_instances \ st.running)
             /\ started' = IF api.raised THEN started
                           ELSE started \ t.covers
             /\ logrotate' = IF api.raised THEN logrotate
                             ELSE RemoveLogrotate(logrotate, project_id,
                                                  projects_manager)
  /\ UNCHANGED <<projects_manager, boot, sources, nreq, nticks, ready,
                 timed_out, recovered, last_tick, detector_stopped, reply>>

\* monit_operator.reload has answered and clean_old_sources has its list
\* of Monit entries.
reload(t) ==
  /\ t.pc = "reload"
  /\ tasks' = Replace(tasks, t, [t EXCEPT !.pc = "clean",
                                          !.entries = DOMAIN monit])
  /\ UNCHANGED <<monit, api_servers, running_instances, registry,
                 projects_manager, logrotate, sources, nreq, nticks, history>>

\* clean_old_sources from its list of Monit entries to its end: its future
\* puts the callback that resumes the stop on the IOLoop's queue.
clean_old_sources(t) ==
  /\ t.pc = "clean"
  /\ sources' = sources \cap ActiveRevisions(t.entries, projects_manager)
  /\ tasks' = Replace(tasks, t, [t EXCEPT !.pc = "cleaned"])
  /\ UNCHANGED <<monit, api_servers, running_instances, registry,
                 projects_manager, logrotate, nreq, nticks, history>>

\* stop_app_instance or stop_app from the end of clean_old_sources to its
\* own end: its future puts the callback that resumes its caller on the
\* IOLoop's queue, the handler of the request or stop_failed_instances.
stop_app_instance_resume(t) ==
  /\ t.pc = "cleaned"
  /\ tasks' = Replace(RunCallback(tasks, t), t,
                      IF t.kind = "stop_failed_instances"
                      THEN [t EXCEPT !.pc = "next"]
                      ELSE HandlerDelete(t, "returned", 0))
  /\ UNCHANGED <<program_but_tasks, nreq, nticks, history>>

\* InstanceHandler.delete or VersionHandler.delete from the end of the stop
\* it called to its own end: the reply of the request.
delete(t) ==
  /\ t.kind \in {"InstanceHandler.delete", "VersionHandler.delete"}
  /\ reply' = IF t.pc = "raised" THEN Raised(t, "HTTPError", t.code)
              ELSE Returned(t)
  /\ tasks' = Finish(RunCallback(tasks, t), t)
  /\ UNCHANGED <<program_but_tasks, nreq, nticks, started, ready, timed_out,
                 recovered, last_tick, detector_stopped, boot>>

\* stop_failed_instances from the end of the stop_app_instance it called:
\* the HTTPError that left the stop ends the run; otherwise the loop goes on
\* to its next suspension point or to its end.
stop_failed_instances_resume(t) ==
  /\ t.kind = "stop_failed_instances" /\ t.pc \in {"next", "raised"}
  /\ IF t.pc = "raised"
     THEN /\ tasks' = Finish(RunCallback(tasks, t), t)
          /\ last_tick' = [t EXCEPT !.pc = "HTTPError"]
          /\ UNCHANGED detector_stopped
     ELSE /\ detector_stopped' = detector_stopped \cup t.covers
          /\ \E u \in NextFailedInstance([t EXCEPT !.covers = {}],
                                          running_instances) :
               IF Over(u)
               THEN /\ tasks' = Finish(RunCallback(tasks, t), t)
                    /\ last_tick' = u
               ELSE /\ tasks' = Replace(RunCallback(tasks, t), t, u)
                    /\ UNCHANGED last_tick
  /\ UNCHANGED <<program_but_tasks, nreq, nticks, started, ready, timed_out,
                 recovered, reply, boot>>

----------------------------------------------------------------------------
(* Boot                                                                    *)

\* The entries whose configuration recover_state would remove if it did
\* not look at their names.
UnmonitoredEntries(m) == {e \in DOMAIN m : m[e] = UNMONITORED}

\* The entries whose configuration recover_state removes: the instance
\* watches that are unmonitored.
RemovedEntries(m) ==
  {e \in DOMAIN m :
     StartsWith[e, MONIT_INSTANCE_PREFIX] /\ m[e] = UNMONITORED}

\* The Monit entries recover_state keeps: every entry but the unmonitored
\* instance watches, whose configuration it removes.
RecoveredEntries(m) ==
  [entry \in DOMAIN m \ RemovedEntries(m) |-> m[entry]]

\* clean_up_instances without its test of the monitored set.
KillAllInstances(live, processes) ==
  {process \in processes : process.kind \in {"java", "python"}}

\* clean_up_instances: the processes whose group it kills, the AppServer
\* processes whose revision and port are not those of an instance watch.
clean_up_instances(live, processes) ==
  LET monitored == {<<i.revision_key, i.port>> : i \in live}
  IN {process \in processes :
        /\ process.kind \in {"java", "python"}
        /\ <<process.revision, process.port>> \notin monitored}

\* The record of the boot before recover_state has run: the main program
\* has not come to listen for requests.
NoBoot ==
  [booted |-> FALSE, removed |-> {}, reloaded |-> FALSE, processes |-> {},
   killed |-> {}]

\* The record of a boot that found no unmonitored watch and no process:
\* recover_state has run and the main program listens.
CleanBoot == [NoBoot EXCEPT !.booted = TRUE]

\* A process of the machine: an AppServer of one of the runtimes, with the
\* revision and the port of its command line, or another program.
Process(kind, revision_key, port) ==
  [kind |-> kind, revision |-> revision_key, port |-> port]

\* The processes that psutil can list at boot.
ProcessTables ==
  {{},
   {Process("python", Join[<<VersionA, Str[1]>>, "_"], 1024)},
   {Process("python", Join[<<VersionA, Str[1]>>, "_"], 1024),
    Process("java", Join[<<VersionAB, Str[1]>>, "_"], 1024),
    Process("other", Join[<<VersionA, Str[1]>>, "_"], 1024)}}

RECURSIVE EnsurePaths(_, _)
EnsurePaths(reg, versions) ==
  IF versions = {} THEN reg
  ELSE LET version == CHOOSE v \in versions : TRUE
       IN EnsurePaths(EnsurePath(reg, version), versions \ {version})

\* The process stops, with all its coroutines, and starts again: the main
\* program calls recover_state, starts to listen and runs
\* populate_api_servers on the IOLoop, which suspends at
\* monit_operator.get_entries; api_servers is empty until it resumes.
\* processes are the processes that psutil lists.
recover_state(processes) ==
  /\ LET kept == RecoveredEntries(monit)
         live == {ParseWatch[entry] : entry \in InstanceEntries(DOMAIN kept)}
         running_versions ==
           {Join[Take[Split[i.revision_key, "_"], 3], "_"] : i \in live}
         reg == EnsurePaths(registry, running_versions)
     IN /\ monit' = kept
        /\ \E order \in Orders(live \ RegisteredInstances(reg)) :
             registry' = DeclareInstanceNodes(reg, live, order)
        /\ running_instances' = live
        /\ recovered' = live
        /\ boot' = [booted |-> TRUE,
                    removed |-> RemovedEntries(monit),
                    reloaded |-> RemovedEntries(monit) # {},
                    processes |-> processes,
                    killed |-> clean_up_instances(live, processes)]
  /\ api_servers' = [x \in {} |-> x]
  /\ tasks' = SetToBag({[NewTask EXCEPT !.kind = "populate_api_servers",
                                        !.pc = "get_entries"]})
  /\ UNCHANGED <<projects_manager, logrotate, sources, nreq, nticks, started,
                 ready, timed_out, last_tick, detector_stopped, reply>>

\* The boot, whatever processes the machine runs.
RecoverState == \E processes \in ProcessTables : recover_state(processes)

\* monit_operator.get_entries answers populate_api_servers.
populate_api_servers_get_entries(t) ==
  /\ t.kind = "populate_api_servers" /\ t.pc = "get_entries"
  /\ tasks' = Replace(tasks, t, [t EXCEPT !.pc = "listed",
                                          !.entries = DOMAIN monit])
  /\ UNCHANGED <<monit, api_servers, running_instances, registry,
                 projects_manager, logrotate, sources, nreq, nticks, history>>

\* populate_api_servers from the answer of monit_operator.get_entries to
\* its end; Monit lists its entries in an order of its own.
populate_api_servers(t) ==
  /\ t.kind = "populate_api_servers" /\ t.pc = "listed"
  /\ \E monit_entries \in Orders(ApiServerEntries(t.entries)) :
       api_servers' = PopulateApiServers(api_servers, monit_entries)
  /\ tasks' = Finish(tasks, t)
  /\ UNCHANGED <<monit, running_instances, registry, projects_manager,
                 logrotate, sources, nreq, nticks, history>>

----------------------------------------------------------------------------
(* The scheduler                                                           *)

\* The scheduler deploys a new revision of a version: the projects manager's
\* watch updates version_details.
deploy(version) ==
  /\ version \in DOMAIN projects_manager
  /\ projects_manager[version].revision < MaxRevision
  /\ projects_manager' =
       [projects_manager EXCEPT ![version].revision = @ + 1]
  /\ UNCHANGED <<monit, api_servers, running_instances, registry, sources,
                 logrotate, tasks, nreq, nticks, history>>

\* The scheduler deletes a project: the projects manager's watch drops the
\* project and its versions.
delete_project(project_id) ==
  /\ project_id \in ProjectsOf(projects_manager)
  /\ projects_manager' =
       [version \in {v \in DOMAIN projects_manager :
                       Split[v, VERSION_PATH_SEPARATOR][1] # project_id} |->
          projects_manager[version]]
  /\ UNCHANGED <<monit, api_servers, running_instances, registry, sources,
                 logrotate, tasks, nreq, nticks, history>>

----------------------------------------------------------------------------
(* Specification                                                           *)

EmptyFcn == [x \in {} |-> x]

Init ==
  /\ monit = EmptyFcn
  /\ api_servers = EmptyFcn
  /\ running_instances = {}
  /\ registry = EmptyFcn
  /\ projects_manager = DeployedVersions
  /\ sources = {}
  /\ logrotate = {}
  /\ tasks = EmptyBag
  /\ nreq = 0
  /\ nticks = 0
  /\ started = {}
  /\ ready = {}
  /\ timed_out = {}
  /\ recovered = {}
  /\ last_tick = NewTask
  /\ detector_stopped = {}
  /\ reply = NoReply
  /\ boot = CleanBoot

\* The frames suspended on the IOLoop.
Frames == BagToSet(tasks)

\* The frames the IOLoop can run next: the handler at the head of its
\* queue, or, when there is none, the frames that no callback is ahead of,
\* in the order in which their waits end.
Runnable ==
  IF HeadOfQueue(tasks) # {} THEN HeadOfQueue(tasks)
  ELSE {t \in Frames : t.behind = 0}

\* The answers of the load balancer to the failure detector.
Stats == {servers \in SUBSET StatsServers : Cardinality(servers) <= MaxServers}

\* The steps of the coroutines of the requests and the requests and
\* deployments of the scheduler.
RequestNext ==
  \/ \E version \in VersionKeys, port \in Ports :
       start_app(version, Config(port))
  \/ \E t \in Runnable : ensure_source(t)
  \/ \E t \in Runnable : start_app_resume(t)
  \/ \E t \in Runnable : add_routing_spawned(t)
  \/ \E t \in Runnable : version_handler_post(t)
  \/ \E t \in Runnable, start_successful \in BOOLEAN :
       add_routing(t, start_successful)
  \/ \E version \in VersionKeys, port \in Ports :
       stop_app_instance(version, port)
  \/ \E t \in Runnable : stop_app_instance_teardown(t, 0)
  \/ \E version \in VersionKeys : stop_app(version)
  \/ \E t \in Runnable : stop_app_teardown(t, 0)
  \/ \E t \in Runnable : reload(t)
  \/ \E t \in Runnable : clean_old_sources(t)
  \/ \E t \in Runnable : stop_app_instance_resume(t)
  \/ \E t \in Runnable : delete(t)
  \/ \E version \in VersionKeys : deploy(version)

\* The agent under the requests and the deployments of the scheduler, in one
\* life of the process, Monit answering every request, and without the
\* failure detector.
RequestSpec == Init /\ [][RequestNext]_vars

\* A stop during which Monit answers 503 from its k-th request on.
Outage ==
  \/ \E t \in Runnable, k \in 1..2 : stop_app_instance_teardown(t, k)
  \/ \E t \in Runnable, k \in 1..3 : stop_app_teardown(t, k)

\* The start of populate_api_servers, which the main program runs on the
\* IOLoop after recover_state.
Populate ==
  \/ \E t \in Runnable : populate_api_servers_get_entries(t)
  \/ \E t \in Runnable : populate_api_servers(t)

\* The same, Monit being out of service at times.
OutageSpec == Init /\ [][RequestNext \/ Outage]_vars

\* The process stops and starts again on a machine where no AppServer
\* process is left.
Reboot == recover_state({})

Next == RequestNext \/ Outage \/ Reboot \/ Populate

\* The same, the process being stopped and started again at any time.
Spec == Init /\ [][Next]_vars

\* A run of the failure detector, which the PeriodicCallback of the main
\* program starts every INSTANCE_CLEANUP_INTERVAL seconds.
Tick ==
  /\ nticks < MaxTicks
  /\ nticks' = nticks + 1
  /\ \E servers \in Stats : stop_failed_instances(servers)

DetectorNext ==
  \/ \E port \in Ports : start_app(VersionA, Config(port))
  \/ \E t \in Runnable : ensure_source(t)
  \/ \E t \in Runnable : start_app_resume(t)
  \/ \E t \in Runnable : add_routing_spawned(t)
  \/ \E t \in Runnable : version_handler_post(t)
  \/ \E t \in Runnable, start_successful \in BOOLEAN :
       add_routing(t, start_successful)
  \/ Tick
  \/ \E t \in Runnable : get_entries(t)
  \/ \E t \in Runnable : stop_app_instance_teardown(t, 0)
  \/ \E t \in Runnable : reload(t)
  \/ \E t \in Runnable : clean_old_sources(t)
  \/ \E t \in Runnable : stop_app_instance_resume(t)
  \/ \E t \in Runnable : stop_failed_instances_resume(t)

\* The failure detector over the instances of one version.
DetectorSpec == Init /\ [][DetectorNext]_vars

\* A run of the failure detector in a behaviour that does not count them.
TickAgain ==
  /\ UNCHANGED nticks
  /\ \E servers \in Stats : stop_failed_instances(servers)

\* Such a run when the load balancer reports every instance of the version
\* on this machine DOWN.
TickDown ==
  /\ UNCHANGED nticks
  /\ stop_failed_instances({server \in StatsServers :
                              /\ server.name = GAE_PREFIX \o VersionA
                              /\ server.private_ip = private_ip})

StartAppResume == \E t \in Runnable : start_app_resume(t)
AddRoutingSpawned == \E t \in Runnable : add_routing_spawned(t)
VersionHandlerPostResumed ==
  \E t \in Runnable : version_handler_post(t)
AddRouting ==
  \E t \in Runnable, start_successful \in BOOLEAN :
    add_routing(t, start_successful)
GetEntries == \E t \in Runnable : get_entries(t)
Teardown == \E t \in Runnable : stop_app_instance_teardown(t, 0)
Reload == \E t \in Runnable : reload(t)
CleanOldSources == \E t \in Runnable : clean_old_sources(t)
StopAppInstanceResume == \E t \in Runnable : stop_app_instance_resume(t)
Delete == \E t \in Runnable : delete(t)
StopFailedInstancesResume ==
  \E t \in Runnable : stop_failed_instances_resume(t)

FairNext ==
  \/ start_app(VersionA, Config(1024))
  \/ stop_app_instance(VersionA, 1024)
  \/ \E t \in Runnable : ensure_source(t)
  \/ StartAppResume
  \/ AddRoutingSpawned
  \/ VersionHandlerPostResumed
  \/ AddRouting
  \/ TickAgain
  \/ GetEntries
  \/ Teardown
  \/ Reload
  \/ CleanOldSources
  \/ StopAppInstanceResume
  \/ Delete
  \/ StopFailedInstancesResume

\* The starts and stops of one instance under a failure
\* detector that runs for ever: the IOLoop resumes every coroutine whose wait
\* is over, Monit and the probe answer in the end, and the PeriodicCallback
\* keeps starting stop_failed_instances, to which the load balancer reports
\* every instance DOWN again and again.
FairSpec ==
  /\ Init
  /\ [][FairNext]_vars
  /\ WF_vars(\E t \in Runnable : ensure_source(t))
  /\ WF_vars(StartAppResume)
  /\ WF_vars(AddRoutingSpawned)
  /\ WF_vars(VersionHandlerPostResumed)
  /\ WF_vars(AddRouting)
  /\ WF_vars(TickAgain)
  /\ WF_vars(TickDown)
  /\ WF_vars(GetEntries)
  /\ WF_vars(Teardown)
  /\ WF_vars(Reload)
  /\ WF_vars(CleanOldSources)
  /\ WF_vars(StopAppInstanceResume)
  /\ WF_vars(Delete)
  /\ WF_vars(StopFailedInstancesResume)

\* Projects whose API servers an earlier life of the process has left in
\* Monit, and the ports of these API servers.
ProjectB == <<"b">>
ProjectC == <<"c">>
LeftPorts == {19997, 19998, MAX_API_SERVER_PORT}

\* The process has started on a machine where Monit runs API servers and no
\* instance: recover_state has found nothing to register and
\* populate_api_servers has filled api_servers.
PoolInit ==
  /\ \E left \in SUBSET {ProjectB, ProjectC} :
       \E ports \in [left -> LeftPorts] :
         monit = [entry \in {ApiServerWatch[project_id, ports[project_id]] :
                               project_id \in left} |-> RUNNING]
  /\ \E monit_entries \in Orders(ApiServerEntries(DOMAIN monit)) :
       api_servers = PopulateApiServers([x \in {} |-> x], monit_entries)
  /\ running_instances = {}
  /\ registry = EmptyFcn
  /\ projects_manager = DeployedVersions
  /\ sources = {}
  /\ logrotate = {}
  /\ tasks = EmptyBag
  /\ nreq = 0
  /\ nticks = 0
  /\ started = {}
  /\ ready = {}
  /\ timed_out = {}
  /\ recovered = {}
  /\ last_tick = NewTask
  /\ detector_stopped = {}
  /\ reply = NoReply
  /\ boot = CleanBoot

\* The ports the requests ask for: one is the highest port of the pool of
\* API servers.
PoolPorts == {1024, MAX_API_SERVER_PORT}

PoolNext ==
  \/ \E version \in VersionKeys, port \in PoolPorts :
       start_app(version, Config(port))
  \/ \E t \in Runnable : ensure_source(t)
  \/ StartAppResume
  \/ AddRoutingSpawned
  \/ VersionHandlerPostResumed
  \/ AddRouting

\* The starts of instances on a machine that runs API servers already.
PoolSpec == PoolInit /\ [][PoolNext]_vars

----------------------------------------------------------------------------
(* API servers and instances                                               *)

Projects == {ProjectA, ProjectAB}

\* The project of an instance watch.
ProjectOf(entry) ==
  Split[ParseWatch[entry].revision_key, VERSION_PATH_SEPARATOR][1]

\* The instance watches of a project.
InstanceWatchesOf(project_id) ==
  {entry \in InstanceEntries(DOMAIN monit) : ProjectOf(entry) = project_id}

\* The API server watches of a project.
ApiServerWatchesOf(project_id) ==
  {entry \in DOMAIN monit :
     /\ StartsWith[entry, API_SERVER_PREFIX]
     /\ RSplit1[entry, "-"][1] = API_SERVER_PREFIX \o project_id}

\* No coroutine is suspended: every request has run to completion.
Idle == tasks = EmptyBag

\* C1: once every start, stop_one and stop_all request has run to
\* completion, a project with an instance watch on the node has exactly one
\* API server (api_servers maps it to a port and the watch of that port is
\* the project's only API server watch), and a project with no instance
\* watch has no API server.
C1_ApiServerIffInstances ==
  Idle =>
    \A project_id \in Projects :
      IF InstanceWatchesOf(project_id) # {}
      THEN /\ project_id \in DOMAIN api_servers
           /\ ApiServerWatchesOf(project_id) =
                {ApiServerWatch[project_id, api_servers[project_id]]}
      ELSE /\ project_id \notin DOMAIN api_servers
           /\ ApiServerWatchesOf(project_id) = {}

\* The project of a version key.
ProjectOfVersion(version) == Split[version, VERSION_PATH_SEPARATOR][1]

\* The registry entries of this node below the versions of a project.
RegistryEntriesOf(project_id) ==
  {node \in DOMAIN registry :
     /\ Len(node) = 2
     /\ ProjectOfVersion(node[1]) = project_id
     /\ Split[node[2], ":"][1] = private_ip}

\* The started instances of a project that no completed stop has covered.
StartedOf(project_id) ==
  {key \in started : ProjectOfVersion(key[1]) = project_id}

\* C2: once the instances of a project that were started have all been
\* stopped, by a stop_all of their version or by a stop_one each, and the
\* requests have run to completion, the node holds no API server watch and
\* no registry entry of the project and api_servers has no mapping for it.
C2_NothingLeftAfterStops ==
  \A project_id \in Projects :
    (Idle /\ StartedOf(project_id) = {}) =>
      /\ ApiServerWatchesOf(project_id) = {}
      /\ project_id \notin DOMAIN api_servers
      /\ RegistryEntriesOf(project_id) = {}

----------------------------------------------------------------------------
(* The registry and running_instances                                      *)

\* C3: every member of running_instances has a registry entry at
\* {version key}/{private_ip}:{port} whose payload is its revision.
C3_RunningInstancesRegistered ==
  \A instance \in running_instances :
    /\ InstanceNode[instance] \in DOMAIN registry
    /\ registry[InstanceNode[instance]] = revision[instance]

\* The instances that are registered: the members of running_instances and
\* the instances of the registry entries of this node.
Registered == running_instances \cup RegisteredInstances(registry)

\* C4: a step registers (adds to running_instances or to the registry
\* entries of this node) no instance whose probe has not reported ready, so
\* none whose probe timed out, and it registers an instance from the
\* supervised state only: the Monit watch of an instance that the step
\* registers is there before the step and after it.
C4_RegistersOnlyReadySupervised ==
  [][/\ Registered' \subseteq ready'
     /\ \A instance \in Registered' \ Registered :
          InstanceWatch[instance.revision_key, instance.port]
            \in DOMAIN monit \cap DOMAIN monit']_vars

\* The instances the requests of the model can start.
Instances ==
  {Instance(version \o <<VERSION_PATH_SEPARATOR>> \o Str[n], port) :
     version \in VersionKeys, n \in 1..MaxRevision, port \in Ports}

\* The registry holds the entry of an instance that has no Monit watch.
StaleEntry(instance) ==
  /\ InstanceNode[instance] \in DOMAIN registry
  /\ registry[InstanceNode[instance]] = revision[instance]
  /\ InstanceWatch[instance.revision_key, instance.port] \notin DOMAIN monit

\* C5: a registry entry of this node whose instance has no Monit watch is
\* removed in the end, also when add_routing declares the instance after a
\* stop_one has retracted it.
C5_StaleEntriesRemoved ==
  \A instance \in Instances :
    StaleEntry(instance) ~> ~StaleEntry(instance)

----------------------------------------------------------------------------
(* Ports                                                                   *)

\* C6: no two distinct instance watches and no two distinct members of
\* running_instances have the same port.
C6_PortsDistinct ==
  /\ \A e1, e2 \in InstanceEntries(DOMAIN monit) :
       ParseWatch[e1].port = ParseWatch[e2].port => e1 = e2
  /\ \A i1, i2 \in running_instances : i1.port = i2.port => i1 = i2

----------------------------------------------------------------------------
(* The failure detector                                                    *)

\* The frames without their places on the queue and without what their
\* iterators know of the slots of running_instances, which the steps of
\* other coroutines change.
Settled(bag) ==
  BagOfAll(LAMBDA t : [t EXCEPT !.behind = 0, !.todo = {}, !.met = {}],
           bag)

\* The calls of stop_app_instance that a step of the failure detector makes:
\* the frames of stop_failed_instances that it brings to the get_entries of
\* a stop_app_instance.
NewInvocations ==
  {u \in BagToSet(Settled(tasks')) :
     /\ u.kind = "stop_failed_instances"
     /\ u.pc = "get_entries"
     /\ CopiesIn(u, Settled(tasks')) > CopiesIn(u, Settled(tasks))}

\* Monit supervises the instance, its last probe timed out and it is not
\* registered.
TimedOutSupervised(instance) ==
  /\ instance \in timed_out
  /\ instance \notin running_instances
  /\ InstanceWatch[instance.revision_key, instance.port] \in DOMAIN monit

\* C7: an instance whose probe timed out and that stays supervised and
\* unregistered while the load balancer reports it DOWN is stopped by a
\* stop_app_instance of the failure detector in the end.
C7_TimedOutStoppedByDetector ==
  \A instance \in Instances :
    TimedOutSupervised(instance) ~>
      (KeyOf[instance] \in detector_stopped
         \/ ~TimedOutSupervised(instance))

\* C8: a run of the failure detector that is over has called
\* stop_app_instance for every member of running_instances that the load
\* balancer reported DOWN on this machine when its loop began, however many
\* they were, and for no instance that was not reported DOWN.
C8_EveryDownInstanceStopped ==
  last_tick.kind = "stop_failed_instances" =>
    /\ last_tick.due \subseteq last_tick.invoked
    /\ \A instance \in last_tick.invoked :
         KeyOf[instance] \in last_tick.failed

\* The runs of the failure detector that are not over.
TicksInFlight ==
  {t \in Frames : t.kind = "stop_failed_instances"}

\* C9: at most one run of the failure detector is in progress at any time.
C9_TicksDoNotOverlap ==
  /\ Cardinality(TicksInFlight) <= 1
  /\ \A t \in TicksInFlight : CopiesIn(t, tasks) = 1

\* C10: once a stop_app_instance that the failure detector called for a
\* (version key, port) has completed, no later run of the failure detector
\* calls stop_app_instance for it again, as long as it is not started
\* again.
C10_OneStopPerDownInstance ==
  [][\A u \in NewInvocations :
       <<u.version_key, u.port>> \notin detector_stopped]_vars

----------------------------------------------------------------------------
(* The pool of API server ports                                            *)

\* The ports of api_servers.
AssignedPorts(api) == {api[project_id] : project_id \in DOMAIN api}

\* C11: the port that ensure_api_server gives to a project that has no API
\* server is MAX_API_SERVER_PORT when no port is assigned and otherwise the
\* lesser of MAX_API_SERVER_PORT and the lowest assigned port minus one, in
\* whatever order the assigned ports are enumerated.
C11_PortBelowLowestAssigned ==
  [][\A project_id \in DOMAIN api_servers' \ DOMAIN api_servers :
       api_servers'[project_id] =
         Min[{MAX_API_SERVER_PORT}
               \cup {port - 1 : port \in AssignedPorts(api_servers)}]]_vars

\* ensure_api_server has given 19996 to a project while the ports 19997 and
\* 19998 were assigned.
C11_Witness ==
  \E project_id \in DOMAIN api_servers :
    /\ api_servers[project_id] = 19996
    /\ AssignedPorts(Without(api_servers, project_id)) = {19997, 19998}

\* The ports of the instances on the node: those of the instance watches
\* and of the members of running_instances.
InstancePorts ==
  {ParseWatch[entry].port : entry \in InstanceEntries(DOMAIN monit)}
  \cup {instance.port : instance \in running_instances}

\* C12: no API server has the port of an instance of the node.
C12_PoolDisjointFromInstances ==
  AssignedPorts(api_servers) \cap InstancePorts = {}

\* The calls of start_app that a step makes: the frames that it brings to
\* the wait for source_manager.ensure_source.
NewStarts ==
  {u \in BagToSet(Unqueued(tasks')) :
     /\ u.kind = "start_app" /\ u.pc = "ensure_source"
     /\ CopiesIn(u, Unqueued(tasks')) > CopiesIn(u, Unqueued(tasks))}

\* The API server watches.
ApiServerWatches(m) ==
  {entry \in DOMAIN m : StartsWith[entry, API_SERVER_PREFIX]}

\* C13: a start_app for a project that has an API server leaves api_servers
\* and the API server watches as they are, and no project ever has more
\* than one API server watch.
C13_EnsureKeepsApiServer ==
  /\ [](\A project_id \in Projects :
          Cardinality(ApiServerWatchesOf(project_id)) <= 1)
  /\ [][\A u \in NewStarts :
          ProjectOfVersion(u.version_key) \in DOMAIN api_servers =>
            /\ api_servers' = api_servers
            /\ ApiServerWatches(monit') = ApiServerWatches(monit)]_vars

----------------------------------------------------------------------------
(* Reconciliation at boot                                                  *)

\* C14: after recover_state the registry entries of this node are those of
\* the instances that Monit monitors, each with the revision of its
\* instance as payload.
C14_RegistryEqualsLiveSet ==
  [][RecoverState =>
       RegisteredInstances(registry') = running_instances']_vars


----------------------------------------------------------------------------
(* Claims about the replies and the order of the steps                     *)

\* The entry is a watch of an instance of the version at the port: its
\* name begins with instance_ and the version key and ends with a hyphen
\* and the port.
IsWatchOf(entry, version, port) ==
  LET head == MONIT_INSTANCE_PREFIX \o version
      tail == <<"-">> \o Str[port]
  IN /\ StartsWith[entry, head]
     /\ Len(entry) >= Len(head) + Len(tail)
     /\ SubSeq(entry, Len(entry) - Len(tail) + 1, Len(entry)) = tail

\* The stops of one instance that wait for their list of Monit entries and
\* whose list has no watch of an instance of their version at their port.
StopsWithoutEntry ==
  {t \in Frames :
     /\ t.kind = "stop_app_instance" /\ t.pc = "listed"
     /\ \A entry \in t.entries :
          ~IsWatchOf(entry, t.version_key, t.port)}

\* An HTTPError with this code leaves the stop t in this step: the callback
\* that resumes its handler with the exception joins the IOLoop's queue.
HTTPErrorLeaves(t, code) ==
  CopiesIn(HandlerDelete(t, "raised", code), Unqueued(tasks'))
    > CopiesIn(HandlerDelete(t, "raised", code), Unqueued(tasks))

\* C15: a stop of one instance that finds no Monit entry for its version
\* and port ends with an HTTPError whose code is INTERNAL_ERROR (500, not
\* 400), and the registry, running_instances, the Monit watches and
\* api_servers are what they were: the error leaves stop_app_instance in
\* the step that finds no entry, and InstanceHandler.delete, once resumed
\* with it, gives it as the reply of the request.
C15_NoEntryFailsInternal ==
  [][/\ \A t \in StopsWithoutEntry :
          (\E k \in 0..2 : stop_app_instance_teardown(t, k)) =>
            /\ HTTPErrorLeaves(t, INTERNAL_ERROR)
            /\ INTERNAL_ERROR = 500
            /\ UNCHANGED <<registry, running_instances, monit,
                           api_servers, reply>>
     /\ \A t \in Frames :
          t.kind = "InstanceHandler.delete" /\ t.pc = "raised" /\ delete(t)
            => /\ reply' = Reply("InstanceHandler.delete", "HTTPError",
                                 t.code)
               /\ UNCHANGED <<registry, running_instances, monit,
                              api_servers>>]_vars

\* The bodies of the start requests: complete ones, one without app_port,
\* one without login_server and one whose login_server is empty.
AdmissionConfigs ==
  {Config(1024), Config(10240),
   [login_server |-> LoginServer],
   [app_port |-> 1024],
   [app_port |-> 1024, login_server |-> <<>>]}

\* Version keys of a Java version whose memory is 250 MB and of a version
\* whose runtime is unknown.
VersionJ == <<"j", "_", "s", "_", "v">>
VersionR == <<"r", "_", "s", "_", "v">>

\* The version keys of the start requests: deployed versions, a version
\* that is not deployed, keys of two and of four components and a key
\* whose project ID is empty.
AdmissionKeys ==
  {VersionA, VersionJ, VersionR,
   <<"a", "_", "s", "_", "w">>,
   <<"a", "_", "s">>,
   <<"a", "_", "s", "_", "v", "_", "1">>,
   <<"_", "s", "_", "v">>}

\* version_details of the deployed versions.
AdmissionVersions ==
  (VersionA :> [runtime |-> "python27", revision |-> 1, max_memory |-> 400])
  @@ (VersionJ :> [runtime |-> "java", revision |-> 1, max_memory |-> 250])
  @@ (VersionR :> [runtime |-> "ruby", revision |-> 1, max_memory |-> 400])

AdmissionInit ==
  /\ monit = EmptyFcn
  /\ api_servers = EmptyFcn
  /\ running_instances = {}
  /\ registry = EmptyFcn
  /\ projects_manager = AdmissionVersions
  /\ sources = {}
  /\ logrotate = {}
  /\ tasks = EmptyBag
  /\ nreq = 0
  /\ nticks = 0
  /\ started = {}
  /\ ready = {}
  /\ timed_out = {}
  /\ recovered = {}
  /\ last_tick = NewTask
  /\ detector_stopped = {}
  /\ reply = NoReply
  /\ boot = CleanBoot

AdmissionNext ==
  \/ \E version \in AdmissionKeys, config \in AdmissionConfigs :
       start_app(version, config)
  \/ \E t \in Runnable : ensure_source(t)
  \/ StartAppResume
  \/ AddRoutingSpawned
  \/ VersionHandlerPostResumed
  \/ AddRouting

\* The start requests that the scheduler can send, good and bad.
AdmissionSpec == AdmissionInit /\ [][AdmissionNext]_vars

\* A start request fails one of the preconditions on its body and on its
\* version key.
BadStart(version, config) ==
  \/ "app_port" \notin DOMAIN config
  \/ "login_server" \notin DOMAIN config
  \/ config.login_server = <<>>
  \/ ~IsAppNameValid[Split[version, VERSION_PATH_SEPARATOR][1]]
  \/ Len(Split[version, VERSION_PATH_SEPARATOR]) # 3
  \/ version \notin DOMAIN projects_manager

\* The runtime of a version is unknown or leaves no heap to Java.
BadRuntime(details) ==
  \/ details.runtime \notin {"python27", "go", "php", "java"}
  \/ details.runtime = "java" /\ details.max_memory - 250 <= 0

\* C16: a start whose project ID is invalid, whose body lacks app_port or
\* has no or an empty login_server, whose version key has no version record
\* (a key without exactly three components included), whose runtime is
\* unknown or whose Java heap, max_memory - 250, is not positive, ends with
\* an HTTPError whose code is BAD_REQUEST: at once when start_app raises
\* before its first wait, and when the handler is resumed with the
\* exception otherwise.
C16_BadStartIsBadRequest ==
  [][/\ \A version \in AdmissionKeys, config \in AdmissionConfigs :
          BadStart(version, config) /\ start_app(version, config) =>
            reply' = Reply("VersionHandler.post", "HTTPError", BAD_REQUEST)
     /\ \A t \in Frames :
          BadRuntime(t.details) /\ start_app_resume(t) =>
            BagIn(VersionHandlerPost(t, "raised"), Unqueued(tasks'))
     /\ \A t \in Frames :
          t.pc = "raised" /\ version_handler_post(t) =>
            reply' = Reply("VersionHandler.post", "HTTPError", BAD_REQUEST)
    ]_vars

\* The frames of add_routing that wait for the probe of an instance.
Probes(bag, instance) ==
  {u \in BagToSet(bag) : /\ u.kind = "add_routing" /\ u.pc = "wait_on_app"
                         /\ Instance(u.revision_key, u.port) = instance}

\* The probes of an instance that a step has put on the IOLoop.
NewProbes(instance) ==
  {u \in Probes(Unqueued(tasks'), instance) :
     /\ u.attempts = 0
     /\ CopiesIn(u, Unqueued(tasks')) > CopiesIn(u, Unqueued(tasks))}

\* C17: when a successful start replies, the probe of its instance is
\* pending and the instance is neither in the registry nor in
\* running_instances.
C17_NotRegisteredAtReply ==
  [][\A t \in Frames :
       t.pc = "resume" /\ version_handler_post(t) =>
         LET instance == Instance(t.revision_key, t.port)
         IN /\ reply' = Reply("VersionHandler.post", "", OK)
            /\ Probes(tasks', instance) # {}
            /\ instance \notin running_instances'
            /\ instance \notin RegisteredInstances(registry')]_vars

\* The instances of the revisions of the deployed versions on the ports.
CandidateInstances ==
  {Instance(Join[<<version, Str[r]>>, VERSION_PATH_SEPARATOR], port) :
     version \in VersionKeys, r \in 1..MaxRevision, port \in Ports}

\* C18: register_instance and unregister_instance are idempotent.  On any
\* registry and running_instances the agent reaches, register_instance of
\* an instance whose node exists succeeds and leaves the revision of the
\* instance as the value of the node, a register_instance that succeeds
\* changes no other node, unregister_instance of an instance whose node is
\* missing succeeds and leaves the registry as it is, and doing either
\* twice leaves what doing it once leaves (a register_instance that raises
\* NoNodeError, the version node being missing, raises it again and leaves
\* the registry as it was).
C18_RegisterUnregisterIdempotent ==
  \A instance \in CandidateInstances :
    LET declared == RegisterInstance(registry, running_instances, instance)
        retracted == UnregisterInstance(registry, running_instances,
                                        instance)
    IN /\ InstanceNode[instance] \in DOMAIN registry =>
            /\ declared.raised = ""
            /\ declared.registry[InstanceNode[instance]] =
                 revision[instance]
       /\ declared.raised = "" =>
            /\ DOMAIN declared.registry =
                 DOMAIN registry \cup {InstanceNode[instance]}
            /\ declared.registry[InstanceNode[instance]] =
                 revision[instance]
            /\ \A node \in DOMAIN registry \ {InstanceNode[instance]} :
                 declared.registry[node] = registry[node]
       /\ declared.raised # "" =>
            /\ declared.registry = registry
            /\ declared.running = running_instances
       /\ RegisterInstance(declared.registry, declared.running, instance)
            = declared
       /\ InstanceNode[instance] \notin DOMAIN retracted.registry
       /\ InstanceNode[instance] \notin DOMAIN registry =>
            retracted.registry = registry
       /\ UnregisterInstance(retracted.registry, retracted.running,
                             instance) = retracted

\* The registry holds the node of an instance with the revision of another
\* instance of the same version and port, and lacks the node of a third
\* whose version node it holds.
C18_Witness ==
  /\ \E instance \in CandidateInstances :
       /\ InstanceNode[instance] \in DOMAIN registry
       /\ registry[InstanceNode[instance]] # revision[instance]
  /\ \E instance \in CandidateInstances :
       /\ InstanceNode[instance] \notin DOMAIN registry
       /\ <<version_key[instance]>> \in DOMAIN registry

\* The starts for which a step ends the wait for the source: the frames
\* that it brings to the resumption of start_app.
NewSourced ==
  {u \in BagToSet(Unqueued(tasks')) :
     /\ u.kind = "start_app" /\ u.pc = "sourced"
     /\ CopiesIn(u, Unqueued(tasks')) > CopiesIn(u, Unqueued(tasks))}

\* The instance watches that a step starts.
StartedWatches ==
  {InstanceWatch[t.revision_key, t.port] :
     t \in {u \in Frames : ~BadRuntime(u.details) /\ start_app_resume(u)}}

TornDown ==
  {ParseWatch[entry] : entry \in InstanceEntries(DOMAIN monit \ DOMAIN monit')}
  \cup (running_instances \ running_instances')
  \cup (RegisteredInstances(registry) \ RegisteredInstances(registry'))

\* C20: a stop of one instance takes away only an instance whose version
\* key and port are the ones of the request: no instance of another port
\* or of another version loses its watch, its registry node or its place
\* in running_instances.
C20_StopsOnlyTheInstance ==
  [][\A t \in Frames :
       /\ t.kind = "stop_app_instance"
       /\ \E k \in 0..2 : stop_app_instance_teardown(t, k)
       => \A instance \in TornDown :
            /\ version_key[instance] = t.version_key
            /\ instance.port = t.port]_vars

----------------------------------------------------------------------------
(* Claims about stop_app, recover_state and the teardown                   *)

\* The key of a version whose version ID begins with the one of VersionA.
VersionA2 == <<"a", "_", "s", "_", "v", "2">>

\* version_details when both versions are deployed.
SiblingVersions ==
  (VersionA :> [runtime |-> "python27", revision |-> 1, max_memory |-> 400])
  @@ (VersionA2 :> [runtime |-> "python27", revision |-> 1,
                    max_memory |-> 400])

\* The instance watches that Monit can hold when the agent boots.
SiblingWatches ==
  {InstanceWatch[Join[<<VersionA, Str[1]>>, VERSION_PATH_SEPARATOR], 1024],
   InstanceWatch[Join[<<VersionA2, Str[1]>>, VERSION_PATH_SEPARATOR], 1024],
   InstanceWatch[Join[<<VersionA2, Str[1]>>, VERSION_PATH_SEPARATOR], 10240]}

\* The agent has booted on a machine whose Monit runs the instance watches
\* and the API server watches given: recover_state and
\* populate_api_servers have run.
Booted(watches, servers, versions) ==
  /\ LET live == {ParseWatch[entry] : entry \in watches}
         reg == EnsurePaths(EmptyFcn, {version_key[i] : i \in live})
     IN /\ monit = [entry \in watches \cup servers |-> RUNNING]
        /\ running_instances = live
        /\ recovered = live
        /\ \E order \in Orders(live) :
             registry = DeclareInstanceNodes(reg, live, order)
  /\ \E monit_entries \in Orders(ApiServerEntries(DOMAIN monit)) :
       api_servers = PopulateApiServers([x \in {} |-> x], monit_entries)
  /\ projects_manager = versions
  /\ sources = {ParseWatch[entry].revision_key :
                  entry \in InstanceEntries(DOMAIN monit)}
  /\ logrotate = {ProjectOf(entry) : entry \in InstanceEntries(DOMAIN monit)}
  /\ tasks = EmptyBag
  /\ nreq = 0
  /\ nticks = 0
  /\ started = {}
  /\ ready = {}
  /\ timed_out = {}
  /\ last_tick = NewTask
  /\ detector_stopped = {}
  /\ reply = NoReply
  /\ boot = CleanBoot

\* Monit runs some of the watches of the two versions and, when it runs
\* any, the API server of the project.
SiblingInit ==
  \E watches \in SUBSET SiblingWatches :
    Booted(watches,
           IF watches = {} THEN {}
           ELSE {ApiServerWatch[ProjectA, MAX_API_SERVER_PORT]},
           SiblingVersions)

\* Starts of both versions and stops of a whole version.
SiblingNext ==
  \/ \E version \in {VersionA, VersionA2}, port \in Ports :
       start_app(version, Config(port))
  \/ \E t \in Runnable : ensure_source(t)
  \/ StartAppResume
  \/ AddRoutingSpawned
  \/ VersionHandlerPostResumed
  \/ AddRouting
  \/ \E version \in {VersionA, VersionA2} : stop_app(version)
  \/ \E t \in Runnable : stop_app_teardown(t, 0)
  \/ Reload
  \/ CleanOldSources
  \/ StopAppInstanceResume
  \/ Delete

\* Two versions of one service whose IDs are v and v2.
SiblingSpec == SiblingInit /\ [][SiblingNext]_vars

\* C21: a stop of a version takes away exactly the instances of that
\* version: every instance that loses its watch, its registry node or its
\* place in running_instances has the version key of the request, and the
\* instances of every other version keep all three.
C21_StopAllOnlyTheVersion ==
  [][\A t \in Frames :
       (\E k \in 0..3 : stop_app_teardown(t, k)) =>
         \A instance \in TornDown : version_key[instance] = t.version_key]_vars

\* The load balancer reports the instances on port 1024 of both versions
\* DOWN on this machine.
BothDown ==
  {[name |-> GAE_PREFIX \o VersionA, private_ip |-> private_ip,
    port |-> 1024, status |-> DOWN],
   [name |-> GAE_PREFIX \o VersionAB, private_ip |-> private_ip,
    port |-> 1024, status |-> DOWN]}

\* The watches of these two instances.
RaceWatches ==
  {InstanceWatch[Join[<<VersionA, Str[1]>>, VERSION_PATH_SEPARATOR], 1024],
   InstanceWatch[Join[<<VersionAB, Str[1]>>, VERSION_PATH_SEPARATOR], 1024]}

\* Monit runs some of the two instances and the API servers of their
\* projects.
RaceInit ==
  \E watches \in SUBSET RaceWatches :
    Booted(watches,
           {ApiServerWatch[ProjectOf(entry),
                           IF ProjectOf(entry) = ProjectA
                           THEN MAX_API_SERVER_PORT
                           ELSE MAX_API_SERVER_PORT - 1] :
              entry \in watches},
           DeployedVersions)

\* Runs of the failure detector and stops that the scheduler asks for at
\* the same time.
RaceNext ==
  \/ /\ nticks < MaxTicks
     /\ nticks' = nticks + 1
     /\ stop_failed_instances(BothDown)
  \/ GetEntries
  \/ \E version \in VersionKeys : stop_app_instance(version, 1024)
  \/ Teardown
  \/ Reload
  \/ CleanOldSources
  \/ StopAppInstanceResume
  \/ Delete
  \/ StopFailedInstancesResume

\* The failure detector beside the stops of the scheduler.
RaceSpec == RaceInit /\ [][RaceNext]_vars

\* The runs of the failure detector whose stop has found no Monit entry
\* for its version and port: the HTTPError with INTERNAL_ERROR has left
\* the stop, and the run waits for its turn on the IOLoop's queue.
DetectorStopsWithoutEntry ==
  {t \in Frames :
     /\ t.kind = "stop_failed_instances" /\ t.pc = "raised"
     /\ t.code = INTERNAL_ERROR}

\* C22: when a stop that the failure detector called finds its Monit entry
\* missing, the run of the detector does not end with the error: once
\* resumed, it goes on with the instances that are left for it.
C22_DetectorSwallowsInternal ==
  [][\A t \in DetectorStopsWithoutEntry :
       stop_failed_instances_resume(t) =>
         /\ last_tick'.pc # "HTTPError"
         /\ t.todo \cap running_instances' # {} =>
              \E u \in BagToSet(tasks') : u.kind = "stop_failed_instances"
    ]_vars

\* The watches that Monit can hold when the agent boots.
BootWatches ==
  RaceWatches \cup {ApiServerWatch[ProjectA, MAX_API_SERVER_PORT]}

\* The agent is about to boot: its globals are those of the import, and
\* Monit holds some of the watches, each running or unmonitored.
BootInit ==
  /\ \E watches \in SUBSET BootWatches :
       monit \in [watches -> {RUNNING, UNMONITORED}]
  /\ api_servers = EmptyFcn
  /\ running_instances = {}
  /\ registry = EmptyFcn
  /\ projects_manager = DeployedVersions
  /\ sources = {}
  /\ logrotate = {}
  /\ tasks = EmptyBag
  /\ nreq = 0
  /\ nticks = 0
  /\ started = {}
  /\ ready = {}
  /\ timed_out = {}
  /\ recovered = {}
  /\ last_tick = NewTask
  /\ detector_stopped = {}
  /\ reply = NoReply
  /\ boot = NoBoot

\* The boot, and starts afterwards: the main program listens for requests
\* once recover_state has run, whatever it has found.
BootNext ==
  \/ RecoverState
  \/ Populate
  \/ /\ boot.booted
     /\ \E version \in VersionKeys : start_app(version, Config(1024))
  \/ \E t \in Runnable : ensure_source(t)
  \/ StartAppResume
  \/ AddRoutingSpawned
  \/ VersionHandlerPostResumed
  \/ AddRouting

\* The boot of the agent on a machine that has run instances.
BootSpec == BootInit /\ [][BootNext]_vars

\* C23: recover_state removes the configuration of every instance watch
\* that is unmonitored and of no other watch, reloads Monit if and only if
\* it has removed one, and leaves in running_instances exactly the
\* remaining instance watches, as (revision key, port).
C23_BootRemovesUnmonitored ==
  [][RecoverState =>
       /\ boot'.removed =
            {entry \in InstanceEntries(DOMAIN monit) :
               monit[entry] = UNMONITORED}
       /\ DOMAIN monit' = DOMAIN monit \ boot'.removed
       /\ \A entry \in DOMAIN monit' : monit'[entry] = monit[entry]
       /\ boot'.reloaded <=> boot'.removed # {}
       /\ running_instances' =
            {ParseWatch[entry] : entry \in InstanceEntries(DOMAIN monit')}
    ]_vars

\* The agent has booted on a machine with a running and an unmonitored
\* instance watch and an unmonitored API server watch.
C23_Witness ==
  /\ boot.reloaded
  /\ Cardinality(boot.removed) = 1
  /\ Cardinality(running_instances) = 1
  /\ \E entry \in DOMAIN monit :
       StartsWith[entry, API_SERVER_PREFIX] /\ monit[entry] = UNMONITORED

\* The (revision key, port) of the instance watches that Monit holds.
MonitoredPairs(m) ==
  {<<ParseWatch[entry].revision_key, ParseWatch[entry].port>> :
     entry \in InstanceEntries(DOMAIN m)}

\* C24: recover_state kills the process group of an AppServer process if
\* and only if the revision and port of the process are not those of an
\* instance watch that is left; it kills no process whose pair is
\* monitored and no process that is not an AppServer.
C24_BootKillsUnmonitoredOnly ==
  [][RecoverState =>
       \A process \in boot'.processes :
         process \in boot'.killed <=>
           /\ process.kind \in {"java", "python"}
           /\ <<process.revision, process.port>> \notin MonitoredPairs(monit')
    ]_vars

\* A boot has killed an AppServer whose pair was not monitored and has
\* spared one whose pair was, and another program.
C24_Witness ==
  /\ boot.killed # {}
  /\ \E process \in boot.processes \ boot.killed :
       process.kind \in {"java", "python"}
  /\ \E process \in boot.processes \ boot.killed : process.kind = "other"

\* The watches of the instances and of the API servers.
TeardownWatches ==
  {InstanceWatch[instance.revision_key, instance.port] :
     instance \in CandidateInstances}
  \cup {ApiServerWatch[project_id, port] :
          project_id \in Projects,
          port \in {MAX_API_SERVER_PORT - 1, MAX_API_SERVER_PORT}}

\* C25: a teardown of an instance watch or of an API server watch calls
\* unmonitor, then removes the configuration, then schedules the end of
\* the process, in this order; when unmonitor finds that Monit does not
\* list the watch (404) the teardown ends there without an error: it
\* removes no configuration and schedules nothing.
C25_UnmonitorRemoveTerminate ==
  \A watch \in TeardownWatches :
    LET torn == UnmonitorAndTerminate(monit, watch, <<>>)
    IN /\ torn.steps[1] = "unmonitor"
       /\ ~torn.raised
       /\ watch \in DOMAIN monit =>
            /\ torn.steps =
                 <<"unmonitor", "remove_configuration", "stop_instance">>
            /\ DOMAIN torn.monit = DOMAIN monit \ {watch}
       /\ watch \notin DOMAIN monit =>
            /\ torn.steps = <<"unmonitor">>
            /\ torn.monit = monit

\* A stop has torn a watch down, and Monit lists some of the watches and
\* not others.
C25_Witness ==
  /\ reply \in {Reply("InstanceHandler.delete", "", OK),
                Reply("VersionHandler.delete", "", OK)}
  /\ TeardownWatches \cap DOMAIN monit # {}
  /\ TeardownWatches \ DOMAIN monit # {}

\* The answers that Monit can give to a series of requests: 503 a number of
\* times, then another answer, then 200.
MaxAnswers == 8
AnswerSeqs ==
  {[i \in 1..MaxAnswers |->
      IF i <= n THEN 503 ELSE IF i = n + 1 THEN code ELSE 200] :
     n \in 0..(MaxAnswers - 1), code \in {200, 404, 500, 503}}

\* The number of 503 at the head of a series of answers.
Leading503(answers) ==
  Cardinality({i \in 1..Len(answers) :
                 \A j \in 1..i : answers[j] = 503})

\* C26: unmonitor retries 5 times on 503 and then raises: it sends at most
\* 6 requests; it returns at the first request that succeeds, raises
\* ProcessNotFound at the first 404 and any other error at once, and it
\* ends whatever Monit answers.
C26_UnmonitorRetriesFiveTimes ==
  \A watch \in TeardownWatches, answers \in AnswerSeqs :
    LET r == unmonitor(DOMAIN monit, watch, answers, UNMONITOR_RETRIES)
        sent == Len(answers) - Len(r.rest)
        n == Leading503(answers)
        code == IF n < Len(answers) THEN answers[n + 1] ELSE 503
    IN /\ sent <= 6
       /\ r.result \in {"ok", "ProcessNotFound", "HTTPError"}
       /\ n > 5 => r.result = "HTTPError" /\ sent = 6
       /\ n <= 5 =>
            /\ sent = n + 1
            /\ code = 200 /\ watch \in DOMAIN monit => r.result = "ok"
            /\ code = 404 \/ (code = 200 /\ watch \notin DOMAIN monit) =>
                 r.result = "ProcessNotFound"
            /\ code = 500 => r.result = "HTTPError"

\* A stop has ended with the error of an unmonitor that Monit answered
\* with 503 to the last retry, and Monit lists some watches and not others.
C26_Witness ==
  /\ reply.raised = "HTTPError" /\ reply.code = SERVICE_UNAVAILABLE
  /\ TeardownWatches \cap DOMAIN monit # {}
  /\ TeardownWatches \ DOMAIN monit # {}

\* What a request of the probe to the port of an instance can get: IOError,
\* or a response of some code.
ProbeOutcomes == {IO_ERROR, HTTP_OK, 302, 404, 500}

WaitOnApp ==
  \E t \in Runnable, outcome \in ProbeOutcomes : wait_on_app(t, outcome)
WaitOnAppTimeout == \E t \in Runnable : wait_on_app_timeout(t)

\* The scheduler starts the instance of a version, and starts it again once
\* the probe of the first start has ended; each request of a probe is a
\* step.
ProbeNext ==
  \/ tasks = EmptyBag /\ start_app(VersionA, Config(1024))
  \/ \E t \in Runnable : ensure_source(t)
  \/ StartAppResume
  \/ AddRoutingSpawned
  \/ VersionHandlerPostResumed
  \/ WaitOnApp
  \/ WaitOnAppTimeout

\* The IOLoop runs the coroutines that can run: a probe goes on after each
\* sleep, and each of its requests ends with a response or with IOError.
ProbeSpec ==
  /\ Init
  /\ [][ProbeNext]_vars
  /\ WF_vars(\E t \in Runnable : ensure_source(t))
  /\ WF_vars(StartAppResume)
  /\ WF_vars(AddRoutingSpawned)
  /\ WF_vars(VersionHandlerPostResumed)
  /\ WF_vars(WaitOnApp)
  /\ WF_vars(WaitOnAppTimeout)

\* The frames of add_routing whose probe has not ended.
Probing == {t \in Frames : t.kind = "add_routing" /\ t.pc = "wait_on_app"}

\* A probe that has not ended has got IOError from every request it has
\* sent, has slept BACKOFF_TIME after each, and has sent at most 180.
ProbeHasOnlyFailed ==
  \A t \in Probing :
    /\ t.retries \in 0..180
    /\ t.attempts = 180 - t.retries
    /\ t.slept = t.attempts * 1
    /\ t.outcome = IO_ERROR

\* A probe ends ready with a request that is among its first 180, or not
\* ready after 180 requests and 180 seconds of sleep.
ProbeEnds ==
  \A t \in Probing :
    LET instance == Instance(t.revision_key, t.port)
    IN Probes(tasks', instance) = {} =>
         \/ /\ instance \in ready' /\ instance \notin timed_out'
            /\ t.attempts < 180
         \/ /\ instance \in timed_out'
            /\ ready' = ready
            /\ t.attempts = 180 /\ t.slept = 180

\* C27: the probe of a port returns ready at the first request that gets a
\* response, whatever its code: until then every request has failed and a
\* sleep of one second has followed each; it returns not ready after
\* exactly 180 failed requests, one second apart; and it ends in every
\* case.
C27_ProbeReadyAtFirstResponse ==
  /\ []ProbeHasOnlyFailed
  /\ [][ProbeEnds]_vars
  /\ (Probing # {}) ~> (Probing = {})

\* The probe of an instance has returned ready, and the probe of a later
\* start of the instance has returned not ready.
C27_Witness ==
  \E instance \in ready \cap timed_out : Probing = {}

\* A version of the project of VersionA whose ID does not begin with the
\* one of VersionA.
VersionW == <<"a", "_", "s", "_", "w">>

\* version_details when both versions are deployed.
ProjectVersions ==
  (VersionA :> [runtime |-> "python27", revision |-> 1, max_memory |-> 400])
  @@ (VersionW :> [runtime |-> "python27", revision |-> 1,
                   max_memory |-> 400])

\* The instance watches that Monit can hold when the agent boots.
ProjectWatches ==
  {InstanceWatch[Join[<<VersionA, Str[1]>>, VERSION_PATH_SEPARATOR], 1024],
   InstanceWatch[Join[<<VersionW, Str[1]>>, VERSION_PATH_SEPARATOR], 1024],
   InstanceWatch[Join[<<VersionW, Str[1]>>, VERSION_PATH_SEPARATOR], 10240]}

\* Monit runs some of the watches of the two versions and, when it runs
\* any, the API server of the project.
ProjectInit ==
  \E watches \in SUBSET ProjectWatches :
    Booted(watches,
           IF watches = {} THEN {}
           ELSE {ApiServerWatch[ProjectA, MAX_API_SERVER_PORT]},
           ProjectVersions)

\* Stops of a whole version, before and after the scheduler has deleted
\* the project.
ProjectNext ==
  \/ delete_project(ProjectA)
  \/ \E version \in {VersionA, VersionW} : stop_app(version)
  \/ \E t \in Runnable : stop_app_teardown(t, 0)
  \/ Reload
  \/ CleanOldSources
  \/ StopAppInstanceResume
  \/ Delete

\* Two versions of one project, and the deletion of the project.
ProjectSpec == ProjectInit /\ [][ProjectNext]_vars

\* The instance watches of a project among Monit's entries.
ProjectEntries(entries, project_id) ==
  {entry \in InstanceEntries(entries) : ProjectOf(entry) = project_id}

\* C28: a stop of a version removes the logrotate script of the project
\* only when no instance watch of the project remains and the project is no
\* longer in projects_manager; while instances of another version remain,
\* the script is kept.
C28_LogrotateKeptWhileInstancesRemain ==
  [][\A t \in Frames :
       (\E k \in 0..3 : stop_app_teardown(t, k)) =>
         LET project_id == Split[t.version_key, VERSION_PATH_SEPARATOR][1]
         IN project_id \in logrotate /\ project_id \notin logrotate' =>
              /\ ProjectEntries(DOMAIN monit', project_id) = {}
              /\ project_id \notin ProjectsOf(projects_manager)]_vars

\* The revision keys of the instance watches that Monit holds.
WatchedRevisions ==
  {ParseWatch[entry].revision_key : entry \in InstanceEntries(DOMAIN monit)}

\* C29: when a stop cleans the old sources, the revisions it keeps hold the
\* revision key of every instance watch that exists at that moment and
\* every revision of projects_manager, so the source of a revision that has
\* an instance watch is never cleaned, also when a start of that revision
\* overlaps the stop.
C29_WatchedSourceNeverCleaned ==
  [][\A t \in Frames :
       clean_old_sources(t) =>
         /\ WatchedRevisions \subseteq
              ActiveRevisions(t.entries, projects_manager)
         /\ sources \cap WatchedRevisions \subseteq sources']_vars

\* The starts of a project that are under way.
StartsOf(project_id) ==
  {t \in Frames : /\ t.kind = "start_app"
                  /\ ProjectOfVersion(t.version_key) = project_id}

\* C30: a start that is rejected with BadConfigurationException has no side
\* effect: it creates no instance watch, no registry entry and no API
\* server, so after the rejection of the first start of a project, for an
\* unknown runtime or a Java memory that is too small, the project has no
\* API server.
C30_RejectedStartLeavesNothing ==
  [][/\ \A version \in AdmissionKeys, config \in AdmissionConfigs :
          start_app(version, config) /\ BadStart(version, config) =>
            /\ monit' = monit
            /\ api_servers' = api_servers
            /\ registry' = registry
     /\ \A t \in Frames :
          start_app_resume(t) /\ BadRuntime(t.details) =>
            LET project_id == ProjectOfVersion(t.version_key)
            IN /\ BagIn(VersionHandlerPost(t, "raised"), Unqueued(tasks'))
               /\ InstanceEntries(DOMAIN monit') =
                    InstanceEntries(DOMAIN monit)
               /\ registry' = registry
               /\ StartsOf(project_id) = {t}
                    /\ InstanceWatchesOf(project_id) = {} =>
                      /\ project_id \notin DOMAIN api_servers'
                      /\ \A entry \in ApiServerWatches(monit') :
                           RSplit1[entry, "-"][1] #
                             API_SERVER_PREFIX \o project_id]_vars

\* The last two instances of a project: one of each of its versions.
PairWatches ==
  {InstanceWatch[Join[<<VersionA, Str[1]>>, VERSION_PATH_SEPARATOR], 1024],
   InstanceWatch[Join[<<VersionW, Str[1]>>, VERSION_PATH_SEPARATOR], 1024]}

\* Monit runs some of the two instances and, when it runs any, the API
\* server of the project.
PairInit ==
  \E watches \in SUBSET PairWatches :
    Booted(watches,
           IF watches = {} THEN {}
           ELSE {ApiServerWatch[ProjectA, MAX_API_SERVER_PORT]},
           ProjectVersions)

\* Stops of single instances, which can overlap; Monit answers every
\* request.
PairNext ==
  \/ \E version \in {VersionA, VersionW} : stop_app_instance(version, 1024)
  \/ Teardown
  \/ Reload
  \/ CleanOldSources
  \/ StopAppInstanceResume
  \/ Delete

\* The stops of the last instances of a project.
PairSpec == PairInit /\ [][PairNext]_vars

\* C31: when two stops of single instances, for the last two instances of a
\* project, overlap, each listing Monit's entries before the other has
\* removed its watch, the API server of the project is stopped once both
\* have completed: with no stop under way and no instance watch of the
\* project left, the project has no API server.
C31_ApiServerStoppedAfterBothStops ==
  tasks = EmptyBag /\ InstanceWatchesOf(ProjectA) = {} =>
    /\ ProjectA \notin DOMAIN api_servers
    /\ ApiServerWatchesOf(ProjectA) = {}

\* C32: when a stop of a single instance fails because unmonitor still gets
\* 503 after its retries, the instance is left as it was: its watch, its
\* registry entry and its place in running_instances remain, so that no
\* running watch is without its registry entry.
C32_FailedStopLeavesInstanceIntact ==
  [][\A t \in Frames :
       /\ t.kind = "stop_app_instance"
       /\ stop_app_instance_teardown(t, 1)
       /\ HTTPErrorLeaves(t, SERVICE_UNAVAILABLE)
       => /\ monit' = monit
          /\ registry' = registry
          /\ running_instances' = running_instances]_vars
====
